---------------------------- MODULE Spec2Model ----------------------------
(***************************************************************************)
(* Model of the Prisma AIRS n8n node (src/nodes/PrismaAirs/PrismaAirs.node.ts):*)
(* the retry executor, the sync and async scan invokers, the batch          *)
(* coordinator, the masking orchestrator and the per-item dispatcher.       *)
(*                                                                         *)
(* JavaScript runs one continuation at a time: a continuation runs from the *)
(* event that resumes it (a network response, a timer) to its next await.   *)
(* An action of this model is one such continuation.                        *)
(***************************************************************************)
EXTENDS Integers, Sequences, FiniteSets, TLC

VARIABLES
    procs,      \* the scan invocations (executeSyncScan / executeAsyncScan) started so far
    budget,     \* what the environment may still do: failures and in-progress answers
    host,       \* what the host supplies: continueOnFail(), credentials.region, the items
    pc,         \* where execute() stands
    i,          \* execute's loop index
    cur,        \* the parameters read for item i
    batch,      \* executeBatchScan's locals
    returnData, \* execute's returnData
    output,     \* what execute returned or threw
    itemLog     \* history: how each item's processing went

vars == <<procs, budget, host, pc, i, cur, batch, returnData, output, itemLog>>

-----------------------------------------------------------------------------
(* Bounds of the model *)

\* failing responses the network may give in a run of the retry executor alone
RetryFaults == 7
\* failing responses the network may give in a run of one async scan
AsyncFaults == 3
\* in-progress (or empty) poll answers the remote service may give to one async scan
AsyncPending == 3
\* the longest time (ms) a network call of the model takes
CallMs == 700
\* failing responses and in-progress answers on offer to the async scan that is left to
\* end by itself: more than it can take before its polling duration is over
LiveFaults == 13
LivePending == 4

-----------------------------------------------------------------------------
(* Arithmetic *)

Min(a, b) == IF a < b THEN a ELSE b

Max(a, b) == IF a > b THEN a ELSE b

RECURSIVE Pow2(_)
Pow2(n) == IF n <= 0 THEN 1 ELSE 2 * Pow2(n - 1)

\* the number a sequence of decimal digits writes
RECURSIVE DigitsValue(_)
DigitsValue(ds) ==
    IF ds = <<>> THEN 0
    ELSE 10 * DigitsValue(SubSeq(ds, 1, Len(ds) - 1)) + ds[Len(ds)]

-----------------------------------------------------------------------------
(* Errors.  httpCode is a number, a string or absent; both a number and a   *)
(* string are kept as their decimal digits, t telling which it is.          *)

NoCode == [t |-> "none", v |-> <<>>]

NumCode(ds) == [t |-> "num", v |-> ds]

StrCode(ds) == [t |-> "str", v |-> ds]

NoError == [cls |-> "none", code |-> NoCode, msg |-> <<>>]

NodeApiError(code) == [cls |-> "NodeApiError", code |-> code, msg |-> <<"http">>]

NetworkError == [cls |-> "Error", code |-> NoCode, msg |-> <<"network">>]

ApplicationError(msg) == [cls |-> "ApplicationError", code |-> NoCode, msg |-> msg]

\* the failures httpRequestWithAuthentication may raise
ClientFaults ==
    { NodeApiError(NumCode(<<4, 0, 4>>)), NodeApiError(StrCode(<<4, 0, 4>>)),
      NodeApiError(NumCode(<<4, 0, 0>>)), NodeApiError(StrCode(<<4, 2, 9>>)) }

ServerFaults ==
    { NodeApiError(NumCode(<<5, 0, 0>>)), NodeApiError(StrCode(<<5, 0, 3>>)),
      NodeApiError(NoCode), NetworkError }

Faults == ClientFaults \cup ServerFaults

\* Is4xx as it would be with the string form of httpCode forgotten
Is4xxNumbersOnly(code) ==
    code.t = "num" /\ DigitsValue(code.v) >= 400 /\ DigitsValue(code.v) < 500

\* PrismaAirs.node.ts:255-256
\*   typeof code === 'number' ? code >= 400 && code < 500 : /^4\d\d$/.test(String(code || ''))
Is4xx(code) ==
    IF code.t = "num"
    THEN DigitsValue(code.v) >= 400 /\ DigitsValue(code.v) < 500
    ELSE Len(code.v) = 3 /\ code.v[1] = 4

\* Is404 as it would be with the string form of httpCode forgotten
Is404NumbersOnly(code) == code.t = "num" /\ DigitsValue(code.v) = 404

\* PrismaAirs.node.ts:131-132
\*   typeof code === 'number' ? code === 404 : String(code) === '404'
Is404(code) ==
    IF code.t = "num" THEN DigitsValue(code.v) = 404 ELSE code.v = <<4, 0, 4>>

-----------------------------------------------------------------------------
(* Response bodies.  One record shape for a ScanResponse, an                *)
(* AsyncScanResponse and their mixtures; "none" is an absent field.  full   *)
(* marks the whole response object (body, headers, statusCode), which       *)
(* executeWithRetry returns when the body is falsy.                         *)

Body(status, action, error, id) ==
    [status |-> status, action |-> action, error |-> error, scan_id |-> id,
     full |-> FALSE,
     prompt_masked_data |-> "none", response_masked_data |-> "none",
     prompt_dlp |-> FALSE, response_dlp |-> FALSE, dlp |-> FALSE]

NoBody == Body("none", "none", "none", 0)

\* the response object of a reply whose body is empty
FullResponse == [NoBody EXCEPT !.full = TRUE]

\* a reply of httpRequestWithAuthentication: present says whether body is truthy
Reply(body) == [present |-> TRUE, body |-> body]

EmptyReply == [present |-> FALSE, body |-> NoBody]

\* PrismaAirs.node.ts:249   return response.body || response;
BodyOrResponse(reply) == IF reply.present THEN reply.body ELSE FullResponse

-----------------------------------------------------------------------------
(* Texts and scan requests.  A text is kept as its length in UTF-16 code    *)
(* units (String.length) and its length in UTF-8 bytes (Buffer.byteLength). *)

Text(units, bytes) == [units |-> units, bytes |-> bytes]

Empty == Text(0, 0)

\* PrismaAirs.node.ts:654, 682   a + b
Concat(a, b) == Text(a.units + b.units, a.bytes + b.bytes)

\* ScanContent (lines 24-28): has says which of prompt, response, context are set
ScanContent(has, prompt, response, context) ==
    [has |-> has, prompt |-> prompt, response |-> response, context |-> context]

\* ScanRequest (lines 30-42)
ScanRequest(tr_id, ai_profile, content) ==
    [tr_id |-> tr_id, ai_profile |-> ai_profile, contents |-> <<content>>]

-----------------------------------------------------------------------------
(* Profiles.  A profile string is kept as the sequence of its characters.   *)

Rep(ch, n) == [k \in 1..n |-> ch]

\* a text of the 8-4-4-4-12 shape with a in the first three blocks and b in the rest
Shaped(a, b, dash) ==
    Rep(a, 8) \o <<dash>> \o Rep(a, 4) \o <<dash>> \o Rep(a, 4) \o <<dash>>
      \o Rep(b, 4) \o <<dash>> \o Rep(b, 12)

\* profile strings that are UUIDs: lower case, upper case, digits and mixed
UuidTexts ==
    { Shaped("a", "f", "-"), Shaped("A", "F", "-"), Shaped("0", "9", "-"),
      Shaped("c", "D", "-") }

\* profile strings that are not: names, a letter that is no hex digit, a character too
\* few or too many (a space in front, a line feed behind), other separators
OtherTexts ==
    { <<"p", "r", "o", "d">>, <<"d", "e", "v">>,
      Shaped("a", "g", "-"), Shaped("G", "f", "-"),
      SubSeq(Shaped("a", "f", "-"), 1, 35), SubSeq(Shaped("a", "f", "-"), 2, 36),
      <<" ">> \o Shaped("a", "f", "-"), Shaped("a", "f", "-") \o <<"\n">>,
      Shaped("a", "f", "_"), Shaped("a", "f", "a"), Rep("a", 32) }

ProfileTexts == UuidTexts \cup OtherTexts

HexDigits ==
    {"0", "1", "2", "3", "4", "5", "6", "7", "8", "9", "a", "b", "c", "d", "e", "f",
     "A", "B", "C", "D", "E", "F"}

\* isUUID as it would be without the i flag
isUUIDLowerCase(value) ==
    /\ Len(value) = 36
    /\ \A k \in 1..Len(value) :
          IF k \in {9, 14, 19, 24} THEN value[k] = "-"
          ELSE value[k] \in HexDigits \ {"A", "B", "C", "D", "E", "F"}

\* PrismaAirs.node.ts:281-284
\*   /^[0-9a-f]{8}-[0-9a-f]{4}-[0-9a-f]{4}-[0-9a-f]{4}-[0-9a-f]{12}$/i.test(value)
isUUID(value) ==
    /\ Len(value) = 36
    /\ \A k \in 1..Len(value) :
          IF k \in {9, 14, 19, 24} THEN value[k] = "-" ELSE value[k] \in HexDigits

\* PrismaAirs.node.ts:286-291: has says which of the two fields is set
createProfileObject(profileValue) ==
    IF isUUID(profileValue)
    THEN [has |-> {"profile_id"}, profile_id |-> profileValue, profile_name |-> <<>>]
    ELSE [has |-> {"profile_name"}, profile_id |-> <<>>, profile_name |-> profileValue]

\* PrismaAirs.node.ts:630-631   aiProfileOverride || credentials.aiProfileName
profileToUse(aiProfileOverride, aiProfileName) ==
    IF aiProfileOverride # <<>> THEN aiProfileOverride ELSE aiProfileName

\* the credential's profile in the runs that are not about profiles
SomeProfile == <<"p", "r", "o", "d">>

UsUrl == "https://service.api.aisecurity.paloaltonetworks.com"

EuUrl == "https://service-de.api.aisecurity.paloaltonetworks.com"

-----------------------------------------------------------------------------
(* One scan invocation.  pc is the await it is suspended at:                *)
(*   "http"      httpRequestWithAuthentication (line 248)                   *)
(*   "backoff"   the sleep between two attempts (line 265)                  *)
(*   "pollsleep" the sleep between two polls (lines 129, 135)               *)
(*   "done"      the promise is settled (out: "returned" or "threw")        *)
(* url is the endpoint of the executeWithRetry call in progress; attempt    *)
(* and lastError are that call's locals; elapsed is Date.now() - startTime. *)
(* The other fields are history.  Kept by the scan's own steps: calls (the  *)
(* outbound calls per endpoint), tries and sleeps (the outbound calls and   *)
(* the backoff delays of the executeWithRetry call in progress), polls (the *)
(* poll rounds started), pollSleeps and sleptMs (the inter-poll sleeps and  *)
(* their total length).  Kept by the network (Observed): seen (the last     *)
(* network event), fails (the failures of the executeWithRetry call in      *)
(* progress), pending (the poll answers that were in progress or not        *)
(* found), retried (the other poll failures that were not 4xx).             *)

NoEvent == [ok |-> FALSE, reply |-> EmptyReply, fault |-> NoError]

ReplyEvent(reply) == [ok |-> TRUE, reply |-> reply, fault |-> NoError]

FaultEvent(e) == [ok |-> FALSE, reply |-> EmptyReply, fault |-> e]

NewProc(mode, baseUrl, scanRequest, maxRetries, pollingInterval, maxPollingDuration) ==
    [mode |-> mode, pc |-> "new", url |-> "none", attempt |-> 0,
     baseUrl |-> baseUrl, body |-> scanRequest,
     maxRetries |-> maxRetries, pollingInterval |-> pollingInterval,
     maxPollingDuration |-> maxPollingDuration,
     lastError |-> NoError, timer |-> 0, elapsed |-> 0, scanId |-> 0,
     out |-> "none", val |-> NoBody, err |-> NoError,
     calls |-> [sync |-> 0, submit |-> 0, results |-> 0],
     tries |-> 0, fails |-> 0, sleeps |-> <<>>, seen |-> NoEvent,
     polls |-> 0, pending |-> 0, retried |-> 0, pollSleeps |-> 0, sleptMs |-> 0]

Return(p, v) == [p EXCEPT !.pc = "done", !.out = "returned", !.val = v]

Reject(p, e) == [p EXCEPT !.pc = "done", !.out = "threw", !.err = e]

RequestFailed == ApplicationError(<<"Request failed after retries">>)

Timeout == ApplicationError(<<"Async scan timed out waiting for results">>)

\* AsyncFailed as it would be with the remote error field dropped
AsyncFailedNoDetail(result) == ApplicationError(<<"Async scan failed: ", "Unknown error">>)

\* PrismaAirs.node.ts:125
\*   new ApplicationError(`Async scan failed: ${result.error || 'Unknown error'}`)
AsyncFailed(result) ==
    ApplicationError(<<"Async scan failed: ",
                       IF result.error = "none" THEN "Unknown error" ELSE result.error>>)

\* BackoffDelay as it would be without the 30 s cap
BackoffDelayUncapped(attempt) == 1000 * Pow2(attempt)

\* PrismaAirs.node.ts:264   Math.min(1000 * Math.pow(2, attempt), 30000)
BackoffDelay(attempt) == Min(1000 * Pow2(attempt), 30000)

\* PollCatch as it would be if every poll failure meant "not ready yet"
PollCatchAll(p, e) == [p EXCEPT !.pc = "pollsleep", !.timer = p.pollingInterval]

\* PrismaAirs.node.ts:130-138: the poll loop's catch
PollCatch(p, e) ==
    IF Is404(e.code)
    THEN [p EXCEPT !.pc = "pollsleep", !.timer = p.pollingInterval]
    ELSE Reject(p, e)

\* an exception leaving executeWithRetry: into the poll loop's try, or out of the scan
Raise(p, e) == IF p.url = "results" THEN PollCatch(p, e) ELSE Reject(p, e)

\* RetryLoop as it would be if the first attempt were made whatever maxRetries is
RetryLoopAtLeastOnce(p) ==
    IF p.attempt = 0 \/ p.attempt <= p.maxRetries
    THEN [p EXCEPT !.pc = "http", !.calls[p.url] = @ + 1, !.tries = @ + 1]
    ELSE Raise(p, IF p.lastError # NoError THEN p.lastError ELSE RequestFailed)

\* RetryLoop as it would be with the loop bound off by one (attempt < maxRetries)
RetryLoopOneShort(p) ==
    IF p.attempt < p.maxRetries
    THEN [p EXCEPT !.pc = "http", !.calls[p.url] = @ + 1, !.tries = @ + 1]
    ELSE IF p.url = "results"
    THEN PollCatch(p, IF p.lastError # NoError THEN p.lastError ELSE RequestFailed)
    ELSE Reject(p, IF p.lastError # NoError THEN p.lastError ELSE RequestFailed)

\* PrismaAirs.node.ts:246-248, 270: the head of the retry loop, at p.attempt
RetryLoop(p) ==
    IF p.attempt <= p.maxRetries
    THEN [p EXCEPT !.pc = "http", !.calls[p.url] = @ + 1, !.tries = @ + 1]
    ELSE Raise(p, IF p.lastError # NoError THEN p.lastError ELSE RequestFailed)

\* PrismaAirs.node.ts:239-246: a call of executeWithRetry on endpoint url
executeWithRetry(p, url) ==
    RetryLoop([p EXCEPT !.url = url, !.attempt = 0, !.lastError = NoError,
                        !.tries = 0, !.fails = 0, !.sleeps = <<>>])

\* PollLoop as it would be with one more round allowed after the deadline
PollLoopOneMore(p) ==
    IF p.elapsed < p.maxPollingDuration + p.pollingInterval
    THEN executeWithRetry([p EXCEPT !.polls = @ + 1], "results")
    ELSE Reject(p, Timeout)

\* PollLoop as it would be with the polling duration never looked at
PollLoopNoDeadline(p) == executeWithRetry([p EXCEPT !.polls = @ + 1], "results")

\* PrismaAirs.node.ts:118-120, 142: the head of the poll loop
PollLoop(p) ==
    IF p.elapsed < p.maxPollingDuration
    THEN executeWithRetry([p EXCEPT !.polls = @ + 1], "results")
    ELSE Reject(p, Timeout)

\* PollResult as it would be if only status told completion
PollResultStatusOnly(p, result) ==
    IF result.status = "completed"
    THEN Return(p, result)
    ELSE IF result.status = "failed"
    THEN PollCatch(p, AsyncFailed(result))
    ELSE [p EXCEPT !.pc = "pollsleep", !.timer = p.pollingInterval]

\* PrismaAirs.node.ts:122-129: a poll's result
PollResult(p, result) ==
    IF result.status = "completed" \/ result.action # "none"
    THEN Return(p, result)
    ELSE IF result.status = "failed"
    THEN PollCatch(p, AsyncFailed(result))
    ELSE [p EXCEPT !.pc = "pollsleep", !.timer = p.pollingInterval]

\* time passes only for a scan whose startTime is set
Elapse(p, ms) == IF p.url = "results" THEN [p EXCEPT !.elapsed = @ + ms] ELSE p

\* OnReply as it would be if the results URL were built from a scan id shared by
\* all scans (here the first one given out)
OnReplySharedId(p0, reply, ms) ==
    LET p == Elapse(p0, ms)
        v == BodyOrResponse(reply)
    IN  CASE p.url = "sync"    -> Return(p, v)
          [] p.url = "submit"  -> PollLoop([p EXCEPT !.scanId = 1, !.elapsed = 0])
          [] OTHER             -> PollResult(p, v)

\* PrismaAirs.node.ts:248-249 and the caller's next lines: the request succeeded
OnReply(p0, reply, ms) ==
    LET p == Elapse(p0, ms)
        v == BodyOrResponse(reply)
    IN  CASE p.url = "sync"    -> Return(p, v)
          [] p.url = "submit"  -> PollLoop([p EXCEPT !.scanId = v.scan_id, !.elapsed = 0])
          [] OTHER             -> PollResult(p, v)

\* PrismaAirs.node.ts:250-267: the request failed with e
OnFault(p0, e, ms) ==
    LET p == [Elapse(p0, ms) EXCEPT !.lastError = e]
    IN  IF e.cls = "NodeApiError" /\ Is4xx(e.code)
        THEN Raise(p, e)
        ELSE IF p.attempt < p.maxRetries
        THEN [p EXCEPT !.pc = "backoff", !.timer = BackoffDelay(p.attempt)]
        ELSE RetryLoop([p EXCEPT !.attempt = @ + 1])

\* PrismaAirs.node.ts:265, 246: the backoff sleep is over
OnBackoffDone(p0) ==
    LET p == Elapse(p0, p0.timer)
    IN  RetryLoop([p EXCEPT !.sleeps = Append(@, p.timer), !.timer = 0,
                            !.attempt = @ + 1])

\* PrismaAirs.node.ts:129, 135, 118: the inter-poll sleep is over
OnPollSleepDone(p0) ==
    LET p == Elapse(p0, p0.timer)
    IN  PollLoop([p EXCEPT !.pollSleeps = @ + 1, !.sleptMs = @ + p.timer, !.timer = 0])

\* PrismaAirs.node.ts:68-85
executeSyncScan(baseUrl, scanRequest, maxRetries) ==
    executeWithRetry(NewProc("sync", baseUrl, scanRequest, maxRetries, 0, 0), "sync")

\* PrismaAirs.node.ts:87-106
executeAsyncScan(baseUrl, scanRequest, maxRetries, pollingInterval, maxPollingDuration) ==
    executeWithRetry(NewProc("async", baseUrl, scanRequest, maxRetries, pollingInterval,
                             maxPollingDuration),
                     "submit")

-----------------------------------------------------------------------------
(* The options execute() reads for an item (lines 628-629, 798-799).  A raw *)
(* option of 0 is an unset option: || replaces every falsy value.           *)

\* ResolveMaxRetries as it would be with a configured 0 taken as no retries
ResolveMaxRetriesZeroKept(raw) == Min(raw, 6)

\* ResolveMaxRetries as it would be without the cap
ResolveMaxRetriesUncapped(raw) == IF raw = 0 THEN 3 ELSE raw

\* PrismaAirs.node.ts:628-629
\*   Math.min((additionalOptions.maxRetries as number) || 3, 6)
ResolveMaxRetries(raw) == Min(IF raw = 0 THEN 3 ELSE raw, 6)

\* ResolvePollingInterval as it would be without the floor
ResolvePollingIntervalNoFloor(raw) == IF raw = 0 THEN 2000 ELSE raw

\* PrismaAirs.node.ts:798 (also 706, 752)
\*   Math.max((additionalOptions.pollingInterval as number) || 2000, 1000)
ResolvePollingInterval(raw) == Max(IF raw = 0 THEN 2000 ELSE raw, 1000)

\* PrismaAirs.node.ts:799 (also 707, 753)
\*   (additionalOptions.maxPollingDuration as number) || 300000
ResolveMaxPollingDuration(raw) == IF raw = 0 THEN 300000 ELSE raw

\* the raw option values of the model
RawMaxRetries == {-1, 0, 1, 2, 5, 6, 9}

RawPollingInterval == {0, 500, 3000}

RawMaxPollingDuration == {-5, 0, 1, 2500}

-----------------------------------------------------------------------------
(* Item parameters.  What getNodeParameter yields for an item: the          *)
(* operation, the scan mode, the content fields and the additional options. *)

\* PrismaAirs.node.ts:837   2 * 1024 * 1024 and 5 * 1024 * 1024
SyncLimit == 2 * 1024 * 1024

AsyncLimit == 5 * 1024 * 1024

Tiny == Text(4, 4)

One == Text(1, 1)

\* texts around the limit L: of L bytes, and of L + 1 bytes in L - 1 code units
\* (two of its characters take two bytes)
AtLimit(L) == Text(L, L)

OverLimit(L) == Text(L - 1, L + 1)

JustUnder(L) == Text(L - 1, L - 1)

LimitOfMode(scanMode) == IF scanMode = "sync" THEN SyncLimit ELSE AsyncLimit

Texts(scanMode) ==
    { Tiny, AtLimit(LimitOfMode(scanMode)), OverLimit(LimitOfMode(scanMode)) }

BatchItem(itemType, promptContent, responseContent) ==
    [itemType |-> itemType, promptContent |-> promptContent,
     responseContent |-> responseContent]

TinyItem == BatchItem("prompt", Tiny, Empty)

\* the most items of a batch of the model: one more than a group
MaxBatch == 6

\* batches: none, two tiny prompts, one item at the limit (alone, as the sum of prompt
\* and response, and beside an unused response that is over it) and a second item
\* over the limit
BatchLists(scanMode) ==
    { <<>>, <<TinyItem, TinyItem>>,
      <<BatchItem("prompt", AtLimit(LimitOfMode(scanMode)), Empty)>>,
      <<BatchItem("both", JustUnder(LimitOfMode(scanMode)), One)>>,
      <<BatchItem("prompt", Tiny, OverLimit(LimitOfMode(scanMode)))>>,
      <<TinyItem, BatchItem("response", Empty, OverLimit(LimitOfMode(scanMode)))>>,
      <<TinyItem, BatchItem("both", AtLimit(LimitOfMode(scanMode)), One)>> }

Operations ==
    {"promptScan", "responseScan", "dualScan", "batchScan", "maskData", "otherScan"}

ScanModes == {"sync", "async"}

ItemRawMaxRetries == {-1, 1}

\* additionalOptions; "" and 0 are unset options
Unset == [transactionId |-> "", maxRetries |-> 0, pollingInterval |-> 0,
          maxPollingDuration |-> 0, aiProfileOverride |-> <<>>]

Options(scanMode) ==
    IF scanMode = "sync"
    THEN { [Unset EXCEPT !.maxRetries = r] : r \in ItemRawMaxRetries }
    ELSE { [Unset EXCEPT !.transactionId = "tx", !.maxPollingDuration = 1500] }

Item(operation, scanMode, content, promptContent, responseContent, context, batchItems, options) ==
    [operation |-> operation, scanMode |-> scanMode, content |-> content,
     promptContent |-> promptContent, responseContent |-> responseContent,
     context |-> context, batchItems |-> batchItems, additionalOptions |-> options]

\* the items of the model: every operation in both modes with contents around the
\* limit and no options, and a tiny prompt with options
ItemParams ==
    UNION { { Item("promptScan", m, t, Empty, Empty, Empty, <<>>, Unset) : t \in Texts(m) }
            \cup { Item(op, m, t, Empty, Empty, Empty, <<>>, Unset) :
                     op \in {"responseScan", "maskData"},
                     t \in { AtLimit(LimitOfMode(m)), OverLimit(LimitOfMode(m)) } }
            \cup { Item("promptScan", m, Tiny, Empty, Empty, Empty, <<>>, o) :
                     o \in Options(m) }
            \cup { Item("dualScan", m, Empty, JustUnder(LimitOfMode(m)), One, c, <<>>, Unset) :
                     c \in {Empty, One} }
            \cup { Item("batchScan", m, Empty, Empty, Empty, Empty, l, Unset) :
                     l \in BatchLists(m) }
            \cup { Item("otherScan", m, Empty, Empty, Empty, Empty, <<>>, Unset) }
            : m \in ScanModes }

\* a batch longer than a group, of tiny prompts
LongBatch ==
    Item("batchScan", "sync", Empty, Empty, Empty, Empty, [k \in 1..MaxBatch |-> TinyItem],
         Unset)

\* the sizes of the batches of a run of batches: a full group, and a group and two
BatchRunSizes == {5, 7}

\* the items of a run of batches: tiny prompts in sync mode, and two in async mode
BatchRunItems ==
    { Item("batchScan", "sync", Empty, Empty, Empty, Empty, [k \in 1..n |-> TinyItem], Unset) :
        n \in BatchRunSizes }
    \cup { Item("batchScan", "async", Empty, Empty, Empty, Empty, <<TinyItem, TinyItem>>, Unset) }

\* the items of a run about profiles: the three operations that build requests
\* (lines 687, 734, 784), in sync mode, with every profile override and with none
ProfileRunItems ==
    { Item(op, "sync", Tiny, Empty, Empty, Empty,
           IF op = "batchScan" THEN <<TinyItem, TinyItem>> ELSE <<>>,
           [Unset EXCEPT !.aiProfileOverride = o]) :
        op \in {"promptScan", "batchScan", "maskData"}, o \in ProfileTexts \cup {<<>>} }

\* the items of a run about failures: a tiny prompt in sync mode with Max Retries
\* 0 (which is also the unset option), 1 or 2
FailureRunItems ==
    { Item("promptScan", "sync", Tiny, Empty, Empty, Empty, <<>>,
           [Unset EXCEPT !.maxRetries = r]) : r \in {0, 1, 2} }

\* the raw Polling Interval options of a run about polling
RawRunPollingInterval == {-5, 0, 1, 999, 1000, 3000}

\* the items of a run about polling: the five operations in async mode
PollRunItems ==
    { Item(op, "async",
           IF op \in {"promptScan", "responseScan", "maskData"} THEN Tiny ELSE Empty,
           IF op = "dualScan" THEN Tiny ELSE Empty,
           IF op = "dualScan" THEN One ELSE Empty,
           Empty,
           IF op = "batchScan" THEN <<TinyItem, TinyItem>> ELSE <<>>,
           [Unset EXCEPT !.transactionId = "tx", !.pollingInterval = ri]) :
        op \in {"promptScan", "responseScan", "dualScan", "batchScan", "maskData"},
        ri \in RawRunPollingInterval }

\* the items of a run about masking: maskData of a tiny text in both modes
MaskRunItems ==
    { Item("maskData", m, Tiny, Empty, Empty, Empty, <<>>,
           IF m = "sync" THEN Unset ELSE [Unset EXCEPT !.transactionId = "tx"]) :
        m \in ScanModes }

\* the items the model offers at index idx of n: in a run of any items, the long
\* batch as the only item
ItemsAt(idx, n) ==
    CASE host.offer = "batches" -> BatchRunItems
      [] host.offer = "profiles" -> ProfileRunItems
      [] host.offer = "masks" -> MaskRunItems
      [] host.offer = "polls" -> PollRunItems
      [] host.offer = "failures" -> FailureRunItems
      [] OTHER -> ItemParams \cup (IF n = 1 THEN {LongBatch} ELSE {})

-----------------------------------------------------------------------------
(* execute(): reading an item and building its requests (lines 619-695,     *)
(* 727-741, 781-791)                                                        *)

\* Math.round(bytes / 1024 / 1024)
RoundMB(bytes) == (2 * bytes + 1024 * 1024) \div (2 * 1024 * 1024)

SizeError(contentSize, scanMode, maxSize) ==
    ApplicationError(<<"Content size exceeds scan limit",
                       RoundMB(contentSize), scanMode, RoundMB(maxSize)>>)

\* validateContentSize as it would be measuring String.length, not UTF-8 bytes
validateContentSizeInUnits(content, scanMode) ==
    LET contentSize == content.units
        maxSize == IF scanMode = "sync" THEN 2 * 1024 * 1024 ELSE 5 * 1024 * 1024
    IN  IF contentSize > maxSize
        THEN SizeError(contentSize, scanMode, maxSize)
        ELSE NoError

\* PrismaAirs.node.ts:835-844: the error thrown, NoError when none is
validateContentSize(content, scanMode) ==
    LET contentSize == content.bytes
        maxSize == IF scanMode = "sync" THEN 2 * 1024 * 1024 ELSE 5 * 1024 * 1024
    IN  IF contentSize > maxSize
        THEN SizeError(contentSize, scanMode, maxSize)
        ELSE NoError

\* getBaseURL as it would be if it fell back to the US endpoint
getBaseURLWithDefault(region) ==
    IF region = "eu" THEN [error |-> NoError, url |-> EuUrl]
    ELSE [error |-> NoError, url |-> UsUrl]

\* PrismaAirs.node.ts:275-279
getBaseURL(region) ==
    IF region = "eu" THEN [error |-> NoError, url |-> EuUrl]
    ELSE IF region = "us" THEN [error |-> NoError, url |-> UsUrl]
    ELSE [error |-> ApplicationError(<<"Unknown region", region>>), url |-> ""]

\* PrismaAirs.node.ts:623   additionalOptions.transactionId || `n8n-${randomUUID()}`
TransactionId(raw, idx) == IF raw = "" THEN <<"n8n", idx>> ELSE <<raw>>

\* PrismaAirs.node.ts:686   `${transactionId}-batch-${index}`
BatchTrId(transactionId, index) == transactionId \o <<"batch", index>>

\* PrismaAirs.node.ts:671-679: the ScanContent of a batch item
BatchContent(item) ==
    ScanContent((IF item.itemType \in {"prompt", "both"} THEN {"prompt"} ELSE {})
                  \cup (IF item.itemType \in {"response", "both"} THEN {"response"} ELSE {}),
                IF item.itemType \in {"prompt", "both"} THEN item.promptContent ELSE Empty,
                IF item.itemType \in {"response", "both"} THEN item.responseContent ELSE Empty,
                Empty)

\* PrismaAirs.node.ts:682   (itemContent.prompt || '') + (itemContent.response || '')
BatchItemText(item) == Concat(BatchContent(item).prompt, BatchContent(item).response)

\* FirstError as it would be if only the first batch item were validated
FirstErrorOfHead(es) == IF es = <<>> THEN NoError ELSE Head(es)

\* the first error of a sequence of errors, NoError when there is none
RECURSIVE FirstError(_)
FirstError(es) ==
    IF es = <<>> THEN NoError
    ELSE IF Head(es) # NoError THEN Head(es) ELSE FirstError(Tail(es))

\* NoItems as it would be with the empty list let through
NoItemsNever(itemsArray) == FALSE

\* PrismaAirs.node.ts:666   itemsArray.length === 0
NoItems(itemsArray) == Len(itemsArray) = 0

\* PrismaAirs.node.ts:637-779: the switch on the operation, up to the requests to
\* send: the error thrown (NoError when none) and the ScanContent of each request
Prepare(it) ==
    LET m == it.scanMode
    IN  CASE it.operation = "promptScan" ->
               [error |-> validateContentSize(it.content, m),
                contents |-> <<ScanContent({"prompt"}, it.content, Empty, Empty)>>]
          [] it.operation = "responseScan" ->
               [error |-> validateContentSize(it.content, m),
                contents |-> <<ScanContent({"response"}, Empty, it.content, Empty)>>]
          [] it.operation = "dualScan" ->
               [error |-> validateContentSize(
                              Concat(Concat(it.promptContent, it.responseContent),
                                     it.context), m),
                contents |-> <<ScanContent(
                                 {"prompt", "response"}
                                   \cup (IF it.context # Empty THEN {"context"} ELSE {}),
                                 it.promptContent, it.responseContent, it.context)>>]
          [] it.operation = "batchScan" ->
               [error |-> IF NoItems(it.batchItems)
                          THEN ApplicationError(
                                 <<"At least one item is required for batch scanning">>)
                          ELSE FirstError([k \in 1..Len(it.batchItems) |->
                                  validateContentSize(BatchItemText(it.batchItems[k]), m)]),
                contents |-> [k \in 1..Len(it.batchItems) |->
                                BatchContent(it.batchItems[k])]]
          [] it.operation = "maskData" ->
               [error |-> validateContentSize(it.content, m),
                contents |-> <<ScanContent({"response"}, Empty, it.content, Empty)>>]
          [] OTHER ->
               [error |-> ApplicationError(<<"Unknown operation", it.operation>>),
                contents |-> <<>>]

\* x || d for a number: 0 and undefined (kept as 0) are falsy
OrDefault(x, d) == IF x = 0 THEN d ELSE x

\* the polling options execute() passes on: lines 798-799 for a single scan; lines
\* 706-707 and 752-753 (undefined in sync mode) and then lines 171-172 and 205-206
\* for a batch and for masking
PollingInterval(it) ==
    IF it.operation \in {"batchScan", "maskData"}
    THEN OrDefault(IF it.scanMode = "async"
                   THEN ResolvePollingInterval(it.additionalOptions.pollingInterval)
                   ELSE 0, 2000)
    ELSE ResolvePollingInterval(it.additionalOptions.pollingInterval)

MaxPollingDuration(it) ==
    IF it.operation \in {"batchScan", "maskData"}
    THEN OrDefault(IF it.scanMode = "async"
                   THEN ResolveMaxPollingDuration(it.additionalOptions.maxPollingDuration)
                   ELSE 0, 300000)
    ELSE ResolveMaxPollingDuration(it.additionalOptions.maxPollingDuration)

\* the combined UTF-8 size of the fields of a ScanContent
ContentBytes(c) == c.prompt.bytes + c.response.bytes + c.context.bytes

\* the largest of a set of numbers, 0 for the empty set
Largest(S) == IF S = {} THEN 0 ELSE CHOOSE x \in S : \A y \in S : y <= x

\* what execute() keeps of item idx while it processes it; bytes is history: the
\* largest combined size of the contents the item asks to scan
Current(it, idx) ==
    LET prep == Prepare(it)
        tid == TransactionId(it.additionalOptions.transactionId, idx)
    IN  [index |-> idx, operation |-> it.operation, scanMode |-> it.scanMode,
         transactionId |-> tid,
         maxRetries |-> ResolveMaxRetries(it.additionalOptions.maxRetries),
         rawMaxRetries |-> it.additionalOptions.maxRetries,
         pollingInterval |-> PollingInterval(it),
         maxPollingDuration |-> MaxPollingDuration(it),
         original |-> it.content,
         aiProfileOverride |-> it.additionalOptions.aiProfileOverride,
         nreq |-> Len(prep.contents),
         bytes |-> Largest({ ContentBytes(prep.contents[k]) :
                             k \in 1..Len(prep.contents) })]

\* PrismaAirs.node.ts:685-694, 732-741, 782-791: the requests of the item
Requests(it, idx) ==
    LET prep == Prepare(it)
        tid == TransactionId(it.additionalOptions.transactionId, idx)
    IN  [k \in 1..Len(prep.contents) |->
           ScanRequest(IF it.operation = "batchScan" THEN BatchTrId(tid, k - 1) ELSE tid,
                       createProfileObject(
                           profileToUse(it.additionalOptions.aiProfileOverride,
                                        host.aiProfileName)),
                       prep.contents[k])]

-----------------------------------------------------------------------------
(* The remote service and the network *)

\* the scan_id the service gives to the scan invocation k = <<item, index>>
IdOf(k) == 10 * k[1] + k[2] + 1

SyncReplies ==
    { Reply(Body("none", "allow", "none", 99)), Reply(Body("none", "block", "none", 99)),
      EmptyReply }

SubmitReplies(k) == { Reply(Body("queued", "none", "none", IdOf(k))), EmptyReply }

ResultBodies(id) ==
    { Body("queued", "none", "none", id), Body("processing", "none", "none", id),
      Body("completed", "none", "none", id), Body("completed", "allow", "none", id),
      Body("none", "block", "none", id),
      Body("failed", "none", "E1", id), Body("failed", "none", "none", id),
      Body("failed", "block", "E1", id) }

ResultReplies(id) == { Reply(b) : b \in ResultBodies(id) } \cup { EmptyReply }

\* the answers of the service in a run of several scans: the core of the sets above
RunReplies(k, p) ==
    CASE p.url = "sync"   -> { Reply(Body("none", a, "none", IdOf(k))) :
                                 a \in IF host.offer = "items" THEN {"allow", "block"}
                                       ELSE {"allow"} }
      [] p.url = "submit" -> { Reply(Body("queued", "none", "none", IdOf(k))) }
      [] OTHER            -> { Reply(Body("queued", "none", "none", p.scanId)),
                               Reply(Body("completed", "allow", "none", p.scanId)),
                               Reply(Body("failed", "none", "E1", p.scanId)) }

RunFaultKinds == { NodeApiError(NumCode(<<4, 0, 4>>)), NetworkError }

\* a masked-data field of a verdict: absent, null, '', or a masked text
MaskFields == {"none", "null", "", "M1", "M2"}

\* the verdicts of a masking scan: every combination of the two masked-data fields
\* and of the three DLP flags (lines 220-222)
MaskVerdicts(status, id) ==
    { [Body(status, "allow", "none", id) EXCEPT
          !.prompt_masked_data = pm, !.response_masked_data = rm,
          !.prompt_dlp = f[1], !.response_dlp = f[2], !.dlp = f[3]] :
        pm \in MaskFields, rm \in MaskFields, f \in BOOLEAN \X BOOLEAN \X BOOLEAN }

\* the answers of the service in a run about masking
MaskReplies(k, p) ==
    CASE p.url = "sync"   -> { Reply(b) : b \in MaskVerdicts("none", IdOf(k)) }
      [] p.url = "submit" -> { Reply(Body("queued", "none", "none", IdOf(k))) }
      [] OTHER            -> { Reply(b) : b \in MaskVerdicts("completed", p.scanId) }

RepliesFor(k, p) ==
    IF host.offer = "masks" THEN MaskReplies(k, p)
    ELSE IF ~budget.wide THEN RunReplies(k, p)
    ELSE CASE p.url = "sync"   -> SyncReplies
           [] p.url = "submit" -> SubmitReplies(k)
           [] OTHER            -> ResultReplies(p.scanId)

FaultsFor(k, p) == IF budget.wide THEN Faults ELSE RunFaultKinds

\* a poll answer that says neither completed nor failed and carries no verdict
InProgress(reply) ==
    \/ ~reply.present
    \/ reply.body.status \in {"none", "queued", "processing"} /\ reply.body.action = "none"

NotFound(e) == e \in { NodeApiError(NumCode(<<4, 0, 4>>)), NodeApiError(StrCode(<<4, 0, 4>>)) }

\* how long a call takes: nothing or CallMs for a scan alone, CallMs in a run
CallDurations == IF budget.wide THEN {0, CallMs} ELSE {CallMs}

\* the scan invocations whose promises execute() awaits: the one scan of the item,
\* or the group of executeBatchScan's Promise.all (line 177)
Awaited == { <<i, b>> : b \in batch.lo .. (batch.hi - 1) }

\* the awaited promise is settled: Promise.all rejects with the first rejection and
\* fulfils when every promise of the group has
Settled ==
    /\ pc = "await"
    /\ \/ \E k \in Awaited : procs[k].out = "threw"
       \/ \A k \in Awaited : procs[k].out = "returned"

\* execute() has a continuation to run: promise reactions run before the next
\* network or timer event is handled
Busy == pc \in {"start", "loop"} \/ Settled

\* what the network saw of scan p (before the scan's continuation ran): history only
Observed(p, q, event) ==
    LET poll == p.url = "results"
        quiet == IF event.ok THEN InProgress(event.reply) ELSE NotFound(event.fault)
    IN  [q EXCEPT !.seen = event,
                  !.fails = IF event.ok THEN @ ELSE @ + 1,
                  !.pending = IF poll /\ quiet THEN @ + 1 ELSE @,
                  !.retried = IF poll /\ ~event.ok /\ event.fault \in ServerFaults
                              THEN @ + 1 ELSE @]

\* a request of scan k is answered
HttpReply(k) ==
    /\ ~Busy
    /\ procs[k].pc = "http"
    /\ \E reply \in RepliesFor(k, procs[k]), ms \in CallDurations :
          LET waits == procs[k].url = "results" /\ InProgress(reply)
          IN  /\ waits => budget.pending > 0
              /\ budget' = [budget EXCEPT !.pending = IF waits THEN @ - 1 ELSE @]
              /\ procs' = [procs EXCEPT
                              ![k] = Observed(@, OnReply(@, reply, ms), ReplyEvent(reply))]
    /\ UNCHANGED <<host, pc, i, cur, batch, returnData, output, itemLog>>

\* a request of scan k fails
HttpFault(k) ==
    /\ ~Busy
    /\ procs[k].pc = "http"
    /\ \E e \in FaultsFor(k, procs[k]), ms \in CallDurations :
          LET waits == procs[k].url = "results" /\ NotFound(e)
          IN  /\ IF waits THEN budget.pending > 0 ELSE budget.faults > 0
              /\ budget' = IF waits THEN [budget EXCEPT !.pending = @ - 1]
                           ELSE [budget EXCEPT !.faults = @ - 1]
              /\ procs' = [procs EXCEPT
                              ![k] = Observed(@, OnFault(@, e, ms), FaultEvent(e))]
    /\ UNCHANGED <<host, pc, i, cur, batch, returnData, output, itemLog>>

\* the timer of scan k's backoff sleep fires
BackoffDone(k) ==
    /\ ~Busy
    /\ procs[k].pc = "backoff"
    /\ procs' = [procs EXCEPT ![k] = OnBackoffDone(@)]
    /\ UNCHANGED <<budget, host, pc, i, cur, batch, returnData, output, itemLog>>

\* the timer of scan k's inter-poll sleep fires
PollSleepDone(k) ==
    /\ ~Busy
    /\ procs[k].pc = "pollsleep"
    /\ procs' = [procs EXCEPT ![k] = OnPollSleepDone(@)]
    /\ UNCHANGED <<budget, host, pc, i, cur, batch, returnData, output, itemLog>>

-----------------------------------------------------------------------------
(* The retry executor alone: one executeSyncScan, which is one              *)
(* executeWithRetry, with every maxRetries execute() can pass.              *)

\* what the host supplies: continueOnFail(), credentials.region,
\* credentials.aiProfileName, the number of input items, and which items the model
\* offers for them
Host(continueOnFail, region, aiProfileName, n, offer) ==
    [continueOnFail |-> continueOnFail, region |-> region,
     aiProfileName |-> aiProfileName, n |-> n, offer |-> offer]

NoHost == Host(FALSE, "us", SomeProfile, 0, "none")

NoCurrent ==
    [index |-> -1, operation |-> "none", scanMode |-> "none", transactionId |-> <<>>,
     maxRetries |-> 0, rawMaxRetries |-> 0, pollingInterval |-> 0,
     maxPollingDuration |-> 0, original |-> Empty, aiProfileOverride |-> <<>>, nreq |-> 0, bytes |-> 0]

NoBatch == [lo |-> 0, hi |-> 0, requests |-> <<>>, results |-> <<>>]

Solo == <<0, 0>>

SoloRequest ==
    ScanRequest(<<"tx">>, createProfileObject(SomeProfile),
                ScanContent({"prompt"}, Text(4, 4), Empty, Empty))

InitRetry ==
    /\ \E raw \in RawMaxRetries :
          procs = (Solo :> executeSyncScan(UsUrl, SoloRequest, ResolveMaxRetries(raw)))
    /\ budget = [faults |-> RetryFaults, pending |-> 0, wide |-> TRUE]
    /\ host = NoHost
    /\ pc = "off"
    /\ i = 0
    /\ cur = NoCurrent
    /\ batch = NoBatch
    /\ returnData = <<>>
    /\ output = [kind |-> "none", error |-> NoError, data |-> <<>>]
    /\ itemLog = <<>>

NextRetry == HttpReply(Solo) \/ HttpFault(Solo) \/ BackoffDone(Solo)

SpecRetry == InitRetry /\ [][NextRetry]_vars

(* One async scan alone, with the options execute() can pass. *)

InitAsync ==
    /\ \E rr \in {-1, 0, 1}, ri \in RawPollingInterval, rd \in RawMaxPollingDuration :
          procs = (Solo :> executeAsyncScan(UsUrl, SoloRequest, ResolveMaxRetries(rr),
                                            ResolvePollingInterval(ri),
                                            ResolveMaxPollingDuration(rd)))
    /\ budget = [faults |-> AsyncFaults, pending |-> AsyncPending, wide |-> TRUE]
    /\ host = NoHost
    /\ pc = "off"
    /\ i = 0
    /\ cur = NoCurrent
    /\ batch = NoBatch
    /\ returnData = <<>>
    /\ output = [kind |-> "none", error |-> NoError, data |-> <<>>]
    /\ itemLog = <<>>

NextAsync ==
    HttpReply(Solo) \/ HttpFault(Solo) \/ BackoffDone(Solo) \/ PollSleepDone(Solo)

SpecAsync == InitAsync /\ [][NextAsync]_vars

(* One async scan alone whose polling duration is short enough for the      *)
(* loop to end by itself: the service may answer in-progress, and the       *)
(* network fail, as long as the scan goes on.  Every call is answered and   *)
(* every timer fires.                                                       *)

RawLiveMaxRetries == {-1, 1, 2}

RawLiveMaxPollingDuration == {-5, 1, 2500}

InitLive ==
    /\ \E rr \in RawLiveMaxRetries, ri \in RawPollingInterval,
          rd \in RawLiveMaxPollingDuration :
          procs = (Solo :> executeAsyncScan(UsUrl, SoloRequest, ResolveMaxRetries(rr),
                                            ResolvePollingInterval(ri),
                                            ResolveMaxPollingDuration(rd)))
    /\ budget = [faults |-> LiveFaults, pending |-> LivePending, wide |-> TRUE]
    /\ host = NoHost
    /\ pc = "off"
    /\ i = 0
    /\ cur = NoCurrent
    /\ batch = NoBatch
    /\ returnData = <<>>
    /\ output = [kind |-> "none", error |-> NoError, data |-> <<>>]
    /\ itemLog = <<>>

Answered == HttpReply(Solo) \/ HttpFault(Solo)

SpecLive ==
    /\ InitLive
    /\ [][NextAsync]_vars
    /\ WF_vars(Answered)
    /\ WF_vars(BackoffDone(Solo))
    /\ WF_vars(PollSleepDone(Solo))

(* One scan alone, sync or async, with every Max Retries option and a       *)
(* network that may fail more often than any retry schedule is long.        *)

\* failing responses the network may give to the scan
CapFaults == 8
\* in-progress poll answers the remote service may give to the scan
CapPending == 1

InitCap ==
    /\ \E m \in {"sync", "async"}, raw \in RawMaxRetries :
          procs = (Solo :> IF m = "sync"
                           THEN executeSyncScan(UsUrl, SoloRequest, ResolveMaxRetries(raw))
                           ELSE executeAsyncScan(UsUrl, SoloRequest, ResolveMaxRetries(raw),
                                                 ResolvePollingInterval(0),
                                                 ResolveMaxPollingDuration(0)))
    /\ budget = [faults |-> CapFaults, pending |-> CapPending, wide |-> FALSE]
    /\ host = NoHost
    /\ pc = "off"
    /\ i = 0
    /\ cur = NoCurrent
    /\ batch = NoBatch
    /\ returnData = <<>>
    /\ output = [kind |-> "none", error |-> NoError, data |-> <<>>]
    /\ itemLog = <<>>

SpecCap == InitCap /\ [][NextAsync]_vars

-----------------------------------------------------------------------------
(* execute(): the run over the input items *)

\* batchSize as it would be one too large
batchSizeOff == 5 + 1

\* PrismaAirs.node.ts:158   const batchSize = 5
batchSize == 5

\* an entry of returnData: json and pairedItem.item
Record(kind, item, operation, scanMode, transactionId, batchIndex, result, masking, error) ==
    [kind |-> kind, item |-> item, operation |-> operation, scanMode |-> scanMode,
     transactionId |-> transactionId, batchIndex |-> batchIndex, result |-> result,
     masking |-> masking, error |-> error]

\* a value of maskedContent: a masked-data field of the verdict, or the input text
MaskedField(field) == [of |-> "verdict", field |-> field, text |-> Empty]

InputText(text) == [of |-> "input", field |-> "none", text |-> text]

NoMasking ==
    [applies |-> FALSE, originalContent |-> Empty, maskedFrom |-> "none",
     maskedContent |-> InputText(Empty), maskApplied |-> FALSE, dlpDetected |-> FALSE,
     maskingNote |-> FALSE]

\* PrismaAirs.node.ts:819-825   { error: error.message, timestamp }
ErrorRecord(item, e) ==
    Record("error", item, "none", "none", <<>>, -1, NoBody, NoMasking, e.msg)

\* ScanRecord as it would be without the verdict spread into it
ScanRecordWithoutVerdict(c, result) ==
    Record("success", c.index, c.operation, c.scanMode, c.transactionId, -1, NoBody,
           NoMasking, <<>>)

\* PrismaAirs.node.ts:804-815
ScanRecord(c, result) ==
    Record("success", c.index, c.operation, c.scanMode, c.transactionId, -1, result,
           NoMasking, <<>>)

\* PrismaAirs.node.ts:711-723
BatchRecord(c, index, result) ==
    Record("success", c.index, c.operation, c.scanMode,
           BatchTrId(c.transactionId, index), index, result, NoMasking, <<>>)

\* Truthy as it would be if only absent and null fields were skipped
TruthyNotNull(field) == field \notin {"none", "null"}

\* a masked-data field is used when it is truthy: set, not null, not ''
Truthy(field) == field \notin {"none", "null", ""}

\* DlpDetected as it would be with the top-level flag not looked at
DlpDetectedBySide(response) == response.prompt_dlp \/ response.response_dlp

\* PrismaAirs.node.ts:220-222
\*   response.prompt_detected?.dlp === true || response.response_detected?.dlp === true
\*     || response.dlp === true
DlpDetected(response) == response.prompt_dlp \/ response.response_dlp \/ response.dlp

\* PrismaAirs.node.ts:210-236: what executeMaskingScan derives from the verdict
Masking(scanRequest, response) ==
    LET c == scanRequest.contents[1]
        originalContent == IF c.prompt # Empty THEN c.prompt ELSE c.response
        dlpDetected == DlpDetected(response)
        from == IF Truthy(response.prompt_masked_data) THEN "prompt_masked_data"
                ELSE IF Truthy(response.response_masked_data) THEN "response_masked_data"
                ELSE "original"
    IN  [applies |-> TRUE, originalContent |-> originalContent, maskedFrom |-> from,
         maskedContent |-> IF from = "prompt_masked_data"
                           THEN MaskedField(response.prompt_masked_data)
                           ELSE IF from = "response_masked_data"
                           THEN MaskedField(response.response_masked_data)
                           ELSE InputText(originalContent),
         maskApplied |-> from # "original", dlpDetected |-> dlpDetected,
         maskingNote |-> FALSE]

\* PrismaAirs.node.ts:757-773
MaskRecord(c, scanRequest, result) ==
    LET m == Masking(scanRequest, result)
    IN  Record("success", c.index, c.operation, c.scanMode, c.transactionId, -1, result,
               [m EXCEPT !.originalContent = c.original,
                         !.maskingNote = m.dlpDetected /\ ~m.maskApplied],
               <<>>)

\* StartScan as it would be with the mode not looked at
StartScanAlwaysSync(scanMode, baseUrl, scanRequest, maxRetries, pollingInterval, maxPollingDuration) ==
    executeSyncScan(baseUrl, scanRequest, maxRetries)

\* PrismaAirs.node.ts:162-174, 196-208, 795-801: one scan, by mode
StartScan(scanMode, baseUrl, scanRequest, maxRetries, pollingInterval, maxPollingDuration) ==
    IF scanMode = "sync"
    THEN executeSyncScan(baseUrl, scanRequest, maxRetries)
    ELSE executeAsyncScan(baseUrl, scanRequest, maxRetries, pollingInterval,
                          maxPollingDuration)

\* a settled scan whose result execute() has taken: its history is dropped
Taken(p) ==
    [NewProc(p.mode, p.baseUrl, p.body, p.maxRetries, p.pollingInterval,
             p.maxPollingDuration)
       EXCEPT !.pc = "done", !.out = p.out, !.val = p.val, !.err = p.err]

\* the catch block as it would be with the continue-on-fail policy not consulted
CaughtAlwaysContinues(e) ==
    /\ returnData' = Append(returnData, ErrorRecord(i, e))
    /\ i' = i + 1
    /\ pc' = "loop"
    /\ output' = output

CaughtAlwaysThrows(e) ==
    /\ pc' = "threw"
    /\ output' = [kind |-> "threw", error |-> e, data |-> <<>>]
    /\ UNCHANGED <<i, returnData>>

\* PrismaAirs.node.ts:817-829: the catch block
Caught(e) ==
    IF host.continueOnFail
    THEN /\ returnData' = Append(returnData, ErrorRecord(i, e))
         /\ i' = i + 1
         /\ pc' = "loop"
         /\ output' = output
    ELSE /\ pc' = "threw"
         /\ output' = [kind |-> "threw", error |-> e, data |-> <<>>]
         /\ UNCHANGED <<i, returnData>>

\* history: how item i's processing ended
Logged(c, failed, e) ==
    Append(itemLog, [operation |-> c.operation, nreq |-> c.nreq,
                     failed |-> failed, error |-> e])

\* PrismaAirs.node.ts:159-175: the scans of the group of requests lo+1 .. hi
Group(c, requests, lo, hi) ==
    [k \in { <<c.index, b>> : b \in lo .. (hi - 1) } |->
        StartScan(c.scanMode, getBaseURL(host.region).url, requests[k[2] + 1],
                  c.maxRetries, c.pollingInterval, c.maxPollingDuration)]

\* Begin as it would be with the region error handled like an item's error
BeginUnderPolicy ==
    /\ pc = "start"
    /\ IF getBaseURL(host.region).error # NoError
       THEN IF host.continueOnFail
            THEN /\ returnData' = <<ErrorRecord(0, getBaseURL(host.region).error)>>
                 /\ pc' = "returned"
                 /\ output' = [kind |-> "returned", error |-> NoError, data |-> returnData']
            ELSE /\ pc' = "threw"
                 /\ output' = [kind |-> "threw", error |-> getBaseURL(host.region).error,
                               data |-> <<>>]
                 /\ UNCHANGED returnData
       ELSE /\ pc' = "loop"
            /\ output' = output
            /\ UNCHANGED returnData
    /\ UNCHANGED <<procs, budget, host, i, cur, batch, itemLog>>

\* PrismaAirs.node.ts:610-615: getCredentials and getBaseURL
Begin ==
    /\ pc = "start"
    /\ IF getBaseURL(host.region).error # NoError
       THEN /\ pc' = "threw"
            /\ output' = [kind |-> "threw", error |-> getBaseURL(host.region).error,
                          data |-> <<>>]
       ELSE /\ pc' = "loop"
            /\ output' = output
    /\ UNCHANGED <<procs, budget, host, i, cur, batch, returnData, itemLog>>

\* PrismaAirs.node.ts:617-801: one turn of the loop, from reading item i to its
\* first await, or to the catch block when building its requests fails
ProcessItem ==
    /\ pc = "loop"
    /\ i < host.n
    /\ \E it \in ItemsAt(i, host.n) :
          LET requests == Requests(it, i)
              n == Len(requests)
          IN  /\ cur' = Current(it, i)
              /\ IF Prepare(it).error # NoError
                 THEN /\ Caught(Prepare(it).error)
                      /\ itemLog' = Logged(Current(it, i), TRUE, Prepare(it).error)
                      /\ UNCHANGED <<procs, batch>>
                 ELSE /\ procs' = Group(cur', requests, 0, Min(batchSize, n)) @@ procs
                      /\ batch' = [lo |-> 0, hi |-> Min(batchSize, n),
                                   requests |-> requests, results |-> <<>>]
                      /\ pc' = "await"
                      /\ UNCHANGED <<i, returnData, output, itemLog>>
    /\ UNCHANGED <<budget, host>>

\* GroupResults as it would be with the results taken in the opposite order
GroupResultsReversed == [k \in 1..(batch.hi - batch.lo) |-> procs[<<i, batch.hi - k>>].val]

\* the results of the awaited group, in the order of its requests
GroupResults == [k \in 1..(batch.hi - batch.lo) |-> procs[<<i, batch.lo + k - 1>>].val]

\* Rejected as it would be if a request's failure were swallowed
RejectedNever == FALSE

\* PrismaAirs.node.ts:177: the awaited promise is rejected
Rejected == \E k \in Awaited : procs[k].out = "threw"

\* the rejection Promise.all passes on
GroupError ==
    procs[<<i, Largest({ -k[2] : k \in { a \in Awaited : procs[a].out = "threw" } }) * (-1)>>].err

\* Settle as it would be if the scans of item i that still run were cancelled
SettleCancelling ==
    [k \in DOMAIN procs |->
       IF k[1] = i
       THEN Taken(IF procs[k].pc = "done" THEN procs[k] ELSE Reject(procs[k], NoError))
       ELSE procs[k]]

\* every scan of item i that is settled, with its history dropped
Settle == [k \in DOMAIN procs |->
             IF k[1] = i /\ procs[k].pc = "done" THEN Taken(procs[k]) ELSE procs[k]]

\* PrismaAirs.node.ts:177-181, 711-725, 757-775, 803-829: the awaited promise is
\* settled: the next group of the batch, the item's records, or the catch block
Resume ==
    /\ Settled
    /\ IF Rejected
       THEN /\ Caught(GroupError)
            /\ itemLog' = Logged(cur, TRUE, GroupError)
            /\ procs' = Settle
            /\ batch' = NoBatch
       ELSE IF batch.hi < Len(batch.requests)
       THEN /\ procs' = Group(cur, batch.requests, batch.hi,
                              Min(batch.hi + batchSize, Len(batch.requests))) @@ Settle
            /\ batch' = [batch EXCEPT !.lo = batch.hi,
                                      !.hi = Min(batch.hi + batchSize, Len(batch.requests)),
                                      !.results = @ \o GroupResults]
            /\ UNCHANGED <<pc, i, returnData, output, itemLog>>
       ELSE /\ returnData' = returnData \o
                 (LET results == batch.results \o GroupResults
                  IN  CASE cur.operation = "batchScan" ->
                             [k \in 1..Len(results) |-> BatchRecord(cur, k - 1, results[k])]
                        [] cur.operation = "maskData" ->
                             <<MaskRecord(cur, batch.requests[1], results[1])>>
                        [] OTHER -> <<ScanRecord(cur, results[1])>>)
            /\ i' = i + 1
            /\ pc' = "loop"
            /\ output' = output
            /\ itemLog' = Logged(cur, FALSE, NoError)
            /\ procs' = Settle
            /\ batch' = NoBatch
    /\ UNCHANGED <<budget, host, cur>>

\* PrismaAirs.node.ts:617, 832: the loop is over
Finish ==
    /\ pc = "loop"
    /\ i >= host.n
    /\ pc' = "returned"
    /\ output' = [kind |-> "returned", error |-> NoError, data |-> returnData]
    /\ UNCHANGED <<procs, budget, host, i, cur, batch, returnData, itemLog>>

-----------------------------------------------------------------------------
(* A run of execute() *)

\* the most input items of a run
NItems == 2
\* failing responses the network may give in a run
RunFaults == 1
\* in-progress poll answers the remote service may give in a run
RunPending == 1

Regions == {"us", "eu", "in", "custom", "moon"}

Init ==
    /\ procs = <<>>
    /\ budget = [faults |-> RunFaults, pending |-> RunPending, wide |-> FALSE]
    /\ host \in { Host(c, r, SomeProfile, n, "items") : c \in BOOLEAN, r \in Regions, n \in 0..NItems }
    /\ pc = "start"
    /\ i = 0
    /\ cur = NoCurrent
    /\ batch = NoBatch
    /\ returnData = <<>>
    /\ output = [kind |-> "none", error |-> NoError, data |-> <<>>]
    /\ itemLog = <<>>

Next ==
    \/ Begin
    \/ ProcessItem
    \/ Resume
    \/ Finish
    \/ \E k \in DOMAIN procs :
          HttpReply(k) \/ HttpFault(k) \/ BackoffDone(k) \/ PollSleepDone(k)

Spec == Init /\ [][Next]_vars

(* A run of execute() over batches *)

\* failing responses the network may give in a run of batches
BatchFaults == 1
\* in-progress poll answers the remote service may give in a run of batches
BatchPending == 1

InitBatch ==
    /\ procs = <<>>
    /\ budget = [faults |-> BatchFaults, pending |-> BatchPending, wide |-> FALSE]
    /\ host \in { Host(c, "us", SomeProfile, n, "batches") : c \in BOOLEAN, n \in 1..NItems }
    /\ pc = "start"
    /\ i = 0
    /\ cur = NoCurrent
    /\ batch = NoBatch
    /\ returnData = <<>>
    /\ output = [kind |-> "none", error |-> NoError, data |-> <<>>]
    /\ itemLog = <<>>

SpecBatch == InitBatch /\ [][Next]_vars

(* A run of execute() over one item, with every profile of the credential   *)
(* and of the item, and a network that answers every request                *)

InitProfile ==
    /\ procs = <<>>
    /\ budget = [faults |-> 0, pending |-> 0, wide |-> FALSE]
    /\ host \in { Host(c, "us", name, 1, "profiles") : c \in BOOLEAN, name \in ProfileTexts }
    /\ pc = "start"
    /\ i = 0
    /\ cur = NoCurrent
    /\ batch = NoBatch
    /\ returnData = <<>>
    /\ output = [kind |-> "none", error |-> NoError, data |-> <<>>]
    /\ itemLog = <<>>

NextAnswered ==
    \/ Begin
    \/ ProcessItem
    \/ Resume
    \/ Finish
    \/ \E k \in DOMAIN procs : HttpReply(k)

SpecProfile == InitProfile /\ [][NextAnswered]_vars

(* A run of execute() over one async item of any operation, with every      *)
(* Polling Interval option and a service that answers in progress at times  *)

\* in-progress poll answers the remote service may give in a run about polling
PollPending == 2

InitPoll ==
    /\ procs = <<>>
    /\ budget = [faults |-> 0, pending |-> PollPending, wide |-> FALSE]
    /\ host \in { Host(c, "us", SomeProfile, 1, "polls") : c \in BOOLEAN }
    /\ pc = "start"
    /\ i = 0
    /\ cur = NoCurrent
    /\ batch = NoBatch
    /\ returnData = <<>>
    /\ output = [kind |-> "none", error |-> NoError, data |-> <<>>]
    /\ itemLog = <<>>

NextPoll ==
    \/ Begin
    \/ ProcessItem
    \/ Resume
    \/ Finish
    \/ \E k \in DOMAIN procs : HttpReply(k) \/ PollSleepDone(k)

SpecPoll == InitPoll /\ [][NextPoll]_vars

(* A run of execute() over sync prompt scans against a service that may     *)
(* fail every call                                                          *)

\* the input items of a run about failures
FailureItems == 3
\* failing responses the network may give in a run about failures
FailureFaults == 6

InitFailure ==
    /\ procs = <<>>
    /\ budget = [faults |-> FailureFaults, pending |-> 0, wide |-> FALSE]
    /\ host \in { Host(c, "us", SomeProfile, FailureItems, "failures") : c \in BOOLEAN }
    /\ pc = "start"
    /\ i = 0
    /\ cur = NoCurrent
    /\ batch = NoBatch
    /\ returnData = <<>>
    /\ output = [kind |-> "none", error |-> NoError, data |-> <<>>]
    /\ itemLog = <<>>

NextFailure ==
    \/ Begin
    \/ ProcessItem
    \/ Resume
    \/ Finish
    \/ \E k \in DOMAIN procs : HttpReply(k) \/ HttpFault(k) \/ BackoffDone(k)

SpecFailure == InitFailure /\ [][NextFailure]_vars

(* A run of execute() over one maskData item, with every verdict *)

InitMask ==
    /\ procs = <<>>
    /\ budget = [faults |-> 0, pending |-> 0, wide |-> FALSE]
    /\ host \in { Host(c, "us", SomeProfile, 1, "masks") : c \in BOOLEAN }
    /\ pc = "start"
    /\ i = 0
    /\ cur = NoCurrent
    /\ batch = NoBatch
    /\ returnData = <<>>
    /\ output = [kind |-> "none", error |-> NoError, data |-> <<>>]
    /\ itemLog = <<>>

SpecMask == InitMask /\ [][NextAnswered]_vars

-----------------------------------------------------------------------------
(* The claims about a run of execute() (Spec) *)

ValidRegion == getBaseURL(host.region).error = NoError

\* the output records paired to input item j, in output order
RecordsOf(j) == SelectSeq(returnData, LAMBDA r : r.item = j)

\* the records are in input-item order, those of a batch in batch order
InItemOrder ==
    \A a, b \in 1..Len(returnData) :
        a < b => /\ returnData[a].item <= returnData[b].item
                 /\ returnData[a].item = returnData[b].item
                      => returnData[a].batchIndex < returnData[b].batchIndex

SomeItemFailed == \E j \in 1..Len(itemLog) : itemLog[j].failed

\* C1: with continue-on-fail on and a valid region the run never throws; every item
\* whose processing ended has its records: exactly one error record with the
\* error's message, paired to its index, when it failed, and otherwise exactly one
\* success record (one per request, in batch order, for a batch); the records are
\* in input-item order; a failing item is followed by the next item, and the run
\* returns the records only after all host.n items were processed.
C1_ContinueOnFailKeepsGoing ==
    (host.continueOnFail /\ ValidRegion) =>
        /\ pc # "threw"
        /\ Len(itemLog) = i
        /\ i <= host.n
        /\ \A j \in 0..(Len(itemLog) - 1) :
              LET e == itemLog[j + 1]
                  rs == RecordsOf(j)
              IN  IF e.failed
                  THEN /\ Len(rs) = 1
                       /\ rs[1].kind = "error"
                       /\ rs[1].error = e.error.msg
                  ELSE IF e.operation = "batchScan"
                  THEN /\ Len(rs) = e.nreq
                       /\ \A k \in 1..Len(rs) :
                             rs[k].kind = "success" /\ rs[k].batchIndex = k - 1
                  ELSE /\ Len(rs) = 1
                       /\ rs[1].kind = "success"
        /\ \A a \in 1..Len(returnData) : returnData[a].item < i
        /\ InItemOrder
        /\ pc = "returned" =>
              /\ i = host.n
              /\ output.kind = "returned"
              /\ output.data = returnData

\* a run of two items returned: the first failed at the remote service, the second,
\* a batch of two, gave its two records after the first one's error record
C1_Witness ==
    /\ host.continueOnFail
    /\ pc = "returned"
    /\ Len(itemLog) = 2
    /\ itemLog[1].failed
    /\ itemLog[1].error.cls = "NodeApiError"
    /\ itemLog[2].operation = "batchScan"
    /\ ~itemLog[2].failed
    /\ Len(output.data) = 3
    /\ output.data[1].kind = "error"

\* C2: with continue-on-fail off, once an item's processing failed the run has
\* thrown that item's error: nothing is returned, the item is the last one processed
\* (no item after it was read and no scan was started for one), and the records of
\* the earlier items are not part of what execute() gives.
C2_FirstFailureAborts ==
    (~host.continueOnFail /\ SomeItemFailed) =>
        /\ pc = "threw"
        /\ output.kind = "threw"
        /\ output.data = <<>>
        /\ Len(itemLog) = i + 1
        /\ output.error = itemLog[i + 1].error
        /\ \A j \in 1..Len(itemLog) : itemLog[j].failed <=> j = i + 1
        /\ cur.index = i
        /\ \A k \in DOMAIN procs : k[1] <= i
        /\ \A a \in 1..Len(returnData) :
              returnData[a].kind = "success" /\ returnData[a].item < i

\* the second of two items failed after the first had given its record
C2_Witness ==
    /\ ~host.continueOnFail
    /\ pc = "threw"
    /\ host.n = 2
    /\ i = 1
    /\ itemLog[2].failed
    /\ Len(returnData) = 1
    /\ output.data = <<>>

\* the scans started for the item execute() is at
ScansOfCurrent == { k \in DOMAIN procs : k[1] = cur.index }

SizeErrorLogged ==
    /\ Len(itemLog) = cur.index + 1
    /\ itemLog[cur.index + 1].failed
    /\ itemLog[cur.index + 1].error.cls = "ApplicationError"
    /\ Head(itemLog[cur.index + 1].error.msg) = "Content size exceeds scan limit"

\* C3: when a content the item asks to scan (for a dual scan prompt + response +
\* context, for a batch any of its items) is more than 2097152 bytes in sync mode,
\* 5242880 bytes in async mode, the item fails with the size error and no scan is
\* started for it, so no call is made; with at most that many bytes, the limit itself
\* included, the item's scans are started and the size error is not raised.
C3_SizeLimitBeforeAnyCall ==
    cur.index >= 0 =>
        LET limit == IF cur.scanMode = "sync" THEN 2097152 ELSE 5242880
        IN  /\ cur.bytes > limit => ScansOfCurrent = {} /\ SizeErrorLogged
            /\ (cur.bytes <= limit /\ cur.nreq > 0) =>
                  /\ Cardinality(ScansOfCurrent) >= 1
                  /\ ~SizeErrorLogged

\* after an item over the limit failed with no scan started, a dual scan whose
\* prompt, response and context are exactly the sync limit had its call made
C3_Witness ==
    /\ Len(itemLog) >= 1
    /\ itemLog[1].failed
    /\ Head(itemLog[1].error.msg) = "Content size exceeds scan limit"
    /\ \A k \in DOMAIN procs : k[1] # 0
    /\ cur.index = 1
    /\ cur.operation = "dualScan"
    /\ cur.scanMode = "sync"
    /\ cur.bytes = 2097152
    /\ <<1, 0>> \in DOMAIN procs
    /\ procs[<<1, 0>>].calls.sync = 1

-----------------------------------------------------------------------------
(* The claims about the retry executor (SpecRetry) *)

TheScan == procs[Solo]

\* the delay the executor is to wait after failed attempt k (0-indexed)
ExpectedDelay(k) == Min(1000 * Pow2(k), 30000)

\* C4: a failure with a 4xx status code is not retried: it is raised at once, the
\* calls made for the request are the earlier retriable failures plus this one
\* (exactly one when it is the first failure), and no backoff sleep or call follows.
C4_ClientErrorNotRetried ==
    TheScan.seen.fault \in ClientFaults =>
        /\ TheScan.pc = "done"
        /\ TheScan.out = "threw"
        /\ TheScan.err = TheScan.seen.fault
        /\ TheScan.tries = TheScan.fails
        /\ TheScan.calls.sync = TheScan.fails
        /\ Len(TheScan.sleeps) = TheScan.fails - 1
        /\ TheScan.fails = 1 => TheScan.tries = 1 /\ TheScan.sleeps = <<>>

C4_Witness ==
    /\ TheScan.seen.fault = NodeApiError(StrCode(<<4, 2, 9>>))
    /\ TheScan.out = "threw"
    /\ TheScan.calls.sync = 1
    /\ TheScan.maxRetries = 3

\* what the executor is to have done when it returns after N = fails retriable failures
RetriedThenReturned(returned) ==
    /\ TheScan.fails <= TheScan.maxRetries
    /\ TheScan.tries = TheScan.fails + 1
    /\ TheScan.calls.sync = TheScan.fails + 1
    /\ Len(TheScan.sleeps) = TheScan.fails
    /\ \A k \in 1..TheScan.fails : TheScan.sleeps[k] = ExpectedDelay(k - 1)
    /\ \A k \in 1..TheScan.fails : TheScan.sleeps[k] <= 30000
    /\ \A k \in 2..TheScan.fails : TheScan.sleeps[k - 1] <= TheScan.sleeps[k]
    /\ TheScan.val = returned

\* C5 as stated: N retriable failures followed by a success make N+1 calls, wait
\* min(1000 * 2^k, 30000) ms before attempt k+1, and return the success body.
C5_AsStated ==
    TheScan.out = "returned" => RetriedThenReturned(TheScan.seen.reply.body)

\* C5 (amended): as stated, but what is returned is the success body when the body
\* is non-empty, and the whole response object when the body is empty.
C5_RetriesThenSuccess ==
    TheScan.out = "returned" =>
        RetriedThenReturned(IF TheScan.seen.reply.present
                            THEN TheScan.seen.reply.body ELSE FullResponse)

C5_Witness ==
    /\ TheScan.out = "returned"
    /\ TheScan.fails = 6
    /\ TheScan.calls.sync = 7
    /\ TheScan.sleeps = <<1000, 2000, 4000, 8000, 16000, 30000>>
    /\ TheScan.val = Body("none", "allow", "none", 99)

\* C6: when every attempt fails with a retriable error, maxRetries + 1 calls are
\* made, the error raised is the last attempt's, and maxRetries backoff sleeps
\* were taken: none after the final attempt.
C6_RetriesExhausted ==
    (TheScan.pc = "done" /\ TheScan.seen.fault \in ServerFaults) =>
        /\ TheScan.out = "threw"
        /\ TheScan.err = TheScan.seen.fault
        /\ TheScan.fails = TheScan.maxRetries + 1
        /\ TheScan.calls.sync = TheScan.maxRetries + 1
        /\ Len(TheScan.sleeps) = TheScan.maxRetries

C6_Witness ==
    /\ TheScan.pc = "done"
    /\ TheScan.maxRetries = 6
    /\ TheScan.calls.sync = 7
    /\ TheScan.err = NetworkError
    /\ Len(TheScan.sleeps) = 6

-----------------------------------------------------------------------------
(* The claims about one async scan (SpecAsync) *)

Completion(body) == body.status = "completed" \/ body.action # "none"

\* the last network event was the answer to a poll
PollAnswered == TheScan.url = "results" /\ TheScan.seen.ok /\ TheScan.seen.reply.present

PollFailed == TheScan.url = "results" /\ ~TheScan.seen.ok /\ TheScan.seen.fault # NoError

\* C7: polling stops at the first poll whose result carries a completion signal;
\* after k non-terminal polls (in progress, or 404) and no other poll failure, the
\* scan returns that result after exactly k+1 result calls and k sleeps of
\* pollingInterval.
C7_PollingStopsAtCompletion ==
    /\ (PollAnswered /\ Completion(TheScan.seen.reply.body)) =>
           /\ TheScan.pc = "done"
           /\ TheScan.out = "returned"
           /\ TheScan.val = TheScan.seen.reply.body
    /\ (TheScan.mode = "async" /\ TheScan.out = "returned" /\ TheScan.retried = 0) =>
           /\ Completion(TheScan.val)
           /\ TheScan.calls.results = TheScan.pending + 1
           /\ TheScan.polls = TheScan.pending + 1
           /\ TheScan.pollSleeps = TheScan.pending
           /\ TheScan.sleptMs = TheScan.pending * TheScan.pollingInterval

C7_Witness ==
    /\ TheScan.out = "returned"
    /\ TheScan.val = Body("completed", "none", "none", IdOf(Solo))
    /\ TheScan.pending = 2
    /\ TheScan.retried = 0
    /\ TheScan.calls.results = 3
    /\ TheScan.sleptMs = 2000

\* C8: when the polls yield only 404 failures or in-progress answers until
\* maxPollingDuration has elapsed, the scan fails with the timeout error and
\* returns no verdict; a 404 of a poll is never the scan's failure.
C8_OnlyPendingThenTimeout ==
    /\ (TheScan.pc = "done" /\ TheScan.url = "results"
          /\ (IF TheScan.seen.ok THEN InProgress(TheScan.seen.reply)
                                 ELSE NotFound(TheScan.seen.fault))) =>
           /\ TheScan.out = "threw"
           /\ TheScan.err = Timeout
           /\ TheScan.val = NoBody
           /\ TheScan.elapsed >= TheScan.maxPollingDuration
    /\ (PollFailed /\ NotFound(TheScan.seen.fault)) =>
           /\ TheScan.err \in {NoError, Timeout}
           /\ TheScan.pc \in {"pollsleep", "http", "done"}
    /\ TheScan.url = "results" => ~NotFound(TheScan.err)

C8_Witness ==
    /\ TheScan.out = "threw"
    /\ TheScan.err = Timeout
    /\ TheScan.seen.fault = NodeApiError(StrCode(<<4, 0, 4>>))
    /\ TheScan.pending = 3
    /\ TheScan.calls.results = 3
    /\ TheScan.maxPollingDuration = 2500

\* what the scan is to do when a poll's result says failed
FailsWithRemoteError ==
    /\ TheScan.pc = "done"
    /\ TheScan.out = "threw"
    /\ TheScan.val = NoBody
    /\ TheScan.err = ApplicationError(
           <<"Async scan failed: ",
             IF TheScan.seen.reply.body.error = "none" THEN "Unknown error"
             ELSE TheScan.seen.reply.body.error>>)

\* C9 as stated: whenever a poll result has status failed, the scan fails at once
\* with an error naming the remote error (or 'Unknown error'), returns no verdict
\* and polls no more.
C9_AsStated ==
    (PollAnswered /\ TheScan.seen.reply.body.status = "failed") => FailsWithRemoteError

\* C9 (amended): so it is whenever the result has status failed and carries no
\* action field; a result with an action field is a completion and is returned.
C9_FailedStatusFails ==
    /\ (PollAnswered /\ TheScan.seen.reply.body.status = "failed"
          /\ TheScan.seen.reply.body.action = "none") => FailsWithRemoteError
    /\ (PollAnswered /\ TheScan.seen.reply.body.status = "failed"
          /\ TheScan.seen.reply.body.action # "none") =>
           TheScan.out = "returned" /\ TheScan.val = TheScan.seen.reply.body

C9_Witness ==
    /\ TheScan.out = "threw"
    /\ TheScan.seen.reply.body.status = "failed"
    /\ TheScan.err = ApplicationError(<<"Async scan failed: ", "E1">>)
    /\ TheScan.pending = 1

\* C10: a poll call that fails terminally with anything but a 404 (another 4xx, or
\* a retriable error with the retries exhausted) is the scan's failure at once: no
\* inter-poll sleep and no further poll follows.
C10_PollFailurePropagates ==
    (PollFailed /\ ~NotFound(TheScan.seen.fault)) =>
        /\ TheScan.pc \in {"http", "backoff", "done"}
        /\ TheScan.seen.fault \in ClientFaults => TheScan.pc = "done"
        /\ TheScan.fails = TheScan.maxRetries + 1 => TheScan.pc = "done"
        /\ TheScan.pc = "done" =>
              /\ TheScan.out = "threw"
              /\ TheScan.err = TheScan.seen.fault
              /\ TheScan.timer = 0

C10_Witness ==
    /\ PollFailed
    /\ TheScan.pc = "done"
    /\ TheScan.err = NodeApiError(StrCode(<<5, 0, 3>>))
    /\ TheScan.retried = 2
    /\ TheScan.maxRetries = 1
    /\ TheScan.pending = 1

-----------------------------------------------------------------------------
(* The claims about the lifetime of an async scan (SpecLive) *)

Terminal == TheScan.pc = "done"

OneOutcome ==
    \/ TheScan.out = "returned" /\ TheScan.err = NoError
    \/ TheScan.out = "threw" /\ TheScan.err # NoError /\ TheScan.val = NoBody

\* the service and the network were free to answer in progress and to fail
Unconstrained == budget.faults > 0 /\ budget.pending > 0

\* C11: with every call answered and every sleep ending, an async scan ends: it
\* reaches a terminal state whatever the service and the network do (they are
\* never held back while it runs); the terminal state is a returned verdict or a
\* thrown error (the remote failure, a propagated error or the timeout), never
\* both; and no step of the scan follows it.
C11_AsyncScanEnds ==
    /\ <>Terminal
    /\ [](Terminal => OneOutcome)
    /\ [](~Terminal => Unconstrained)
    /\ [][~Terminal]_vars

\* the scan timed out after three rounds of polls that were all in progress
C11_Witness ==
    /\ Terminal
    /\ TheScan.err = Timeout
    /\ TheScan.polls = 3
    /\ TheScan.pending = 3
    /\ TheScan.calls.results = 3

\* C12: once maxPollingDuration has passed since the poll loop's start, no further
\* call to the results endpoint is issued, and the scan, when it ends, ends with the
\* timeout error.
C12_DeadlineStopsCalls ==
    [][(TheScan.url = "results" /\ TheScan.elapsed >= TheScan.maxPollingDuration) =>
          /\ TheScan'.calls.results = TheScan.calls.results
          /\ TheScan'.pc = "done" => TheScan'.err = Timeout]_vars

-----------------------------------------------------------------------------
(* The claims about batches (SpecBatch) *)

\* the scans started for input item j
ScansOf(j) == { k \in DOMAIN procs : k[1] = j }

\* the number of requests of input item j
RequestsOf(j) == IF j = cur.index THEN cur.nreq ELSE itemLog[j + 1].nreq

\* the requests of the group of request b among n: 5g .. min(5g + 4, n - 1)
GroupOf(b, n) == { c \in 0..(n - 1) : c \div 5 = b \div 5 }

GroupsInTurn ==
    \A k \in DOMAIN procs :
        /\ \A c \in GroupOf(k[2], RequestsOf(k[1])) : <<k[1], c>> \in DOMAIN procs
        /\ \A c \in 0..(5 * (k[2] \div 5) - 1) :
              <<k[1], c>> \in DOMAIN procs /\ procs[<<k[1], c>>].out = "returned"

StartedTogether ==
    \A k \in DOMAIN procs' \ DOMAIN procs :
        /\ procs'[k].pc = "http"
        /\ \A c \in GroupOf(k[2], RequestsOf(k[1])') : <<k[1], c>> \notin DOMAIN procs

AllRequestsScanned ==
    \A j \in 0..(Len(itemLog) - 1) :
        ~itemLog[j + 1].failed =>
            ScansOf(j) = { <<j, c>> : c \in 0..(itemLog[j + 1].nreq - 1) }

\* C13: the requests of a batch are scanned in consecutive groups of at most 5:
\* the scans of a group are started in one step, each with its call issued, a scan
\* of a group exists only when every request of the earlier groups has returned,
\* and a batch that succeeded had every one of its requests scanned.
C13_GroupsOfFiveInTurn ==
    /\ []GroupsInTurn
    /\ []AllRequestsScanned
    /\ [][StartedTogether]_vars

\* of 7 requests the first five have returned and the last two are in flight
C13_Witness ==
    /\ cur.nreq = 7
    /\ pc = "await"
    /\ ScansOf(0) = { <<0, c>> : c \in 0..6 }
    /\ \A c \in 0..4 : procs[<<0, c>>].out = "returned"
    /\ \A c \in 5..6 : procs[<<0, c>>].pc = "http"
    /\ Len(batch.results) = 5

SucceededBatches ==
    { j \in 0..(Len(itemLog) - 1) :
        itemLog[j + 1].operation = "batchScan" /\ ~itemLog[j + 1].failed }

\* C14: the k-th record of a batch that succeeded has batchIndex k, the verdict the
\* service gave to the k-th request (it carries the scan_id of that call), and
\* as transactionId the tr_id sent in the k-th request.
C14_ResultsByIndex ==
    \A j \in SucceededBatches :
        LET rs == RecordsOf(j)
        IN  /\ Len(rs) = itemLog[j + 1].nreq
            /\ \A k \in 1..Len(rs) :
                  /\ rs[k].kind = "success"
                  /\ rs[k].batchIndex = k - 1
                  /\ rs[k].result.scan_id = IdOf(<<j, k - 1>>)
                  /\ rs[k].result.action = "allow"
                  /\ rs[k].transactionId = procs[<<j, k - 1>>].body.tr_id

\* an async batch of two gave its two records after one of its scans had to poll
\* again, and a batch of seven its seven
C14_Witness ==
    /\ pc = "returned"
    /\ Len(itemLog) = 2
    /\ SucceededBatches = {0, 1}
    /\ procs[<<0, 0>>].mode = "async"
    /\ budget.pending = 0
    /\ itemLog[2].nreq = 7
    /\ Len(output.data) = 9

\* C15: at every moment at most 5 scan requests are in flight.
C15_AtMostFiveInFlight ==
    Cardinality({ k \in DOMAIN procs : procs[k].pc = "http" }) <= 5

\* C16: when a request of a batch has failed, the batch item has failed: no scan of
\* a later group was started, the item has no success record, and it has exactly
\* one error record under continue-on-fail, while the run has thrown without it.
C16_BatchFailsAsAWhole ==
    \A j \in 0..(Len(itemLog) - 1) :
        \A k \in ScansOf(j) :
            procs[k].out = "threw" =>
                /\ itemLog[j + 1].failed
                /\ \A c \in ScansOf(j) : c[2] \div 5 <= k[2] \div 5
                /\ \A a \in 1..Len(RecordsOf(j)) : RecordsOf(j)[a].kind # "success"
                /\ IF host.continueOnFail
                   THEN Len(RecordsOf(j)) = 1 /\ RecordsOf(j)[1].kind = "error"
                   ELSE pc = "threw" /\ output.data = <<>> /\ output.kind = "threw"

\* a request of the second group of a batch of 7 failed: the five verdicts of the
\* first group are gone and the item has its one error record
C16_Witness ==
    /\ host.continueOnFail
    /\ Len(itemLog) >= 1
    /\ itemLog[1].nreq = 7
    /\ itemLog[1].failed
    /\ \A c \in 0..4 : procs[<<0, c>>].out = "returned"
    /\ procs[<<0, 5>>].out = "threw"
    /\ Len(RecordsOf(0)) = 1
    /\ RecordsOf(0)[1].kind = "error"

-----------------------------------------------------------------------------
(* The claims about profiles (SpecProfile) *)

\* the profile string the claim says is used: the item's override when it is not
\* empty, else the credential's
ProfileChosen ==
    IF cur.aiProfileOverride # <<>> THEN cur.aiProfileOverride ELSE host.aiProfileName

\* C17: every request execute() builds carries the item's profile override when that
\* is not empty and the credential's profile otherwise, in exactly one of profile_id
\* and profile_name: in profile_id when and only when the string is a UUID of the
\* 8-4-4-4-12 hexadecimal shape in either case of letters, else in profile_name
C17_ProfileResolution ==
    \A k \in DOMAIN procs :
        LET ai_profile == procs[k].body.ai_profile
        IN  /\ Cardinality(ai_profile.has) = 1
            /\ ai_profile.has = {"profile_id"} <=> ProfileChosen \in UuidTexts
            /\ ai_profile.has = {"profile_id"} =>
                  ai_profile.profile_id = ProfileChosen /\ ai_profile.profile_name = <<>>
            /\ ai_profile.has = {"profile_name"} =>
                  ai_profile.profile_name = ProfileChosen /\ ai_profile.profile_id = <<>>

\* an upper-case UUID as the override of a named credential profile went out as
\* profile_id and the run returned
C17_Witness ==
    /\ pc = "returned"
    /\ host.aiProfileName = <<"p", "r", "o", "d">>
    /\ cur.aiProfileOverride = Shaped("A", "F", "-")
    /\ \E k \in DOMAIN procs :
          /\ procs[k].out = "returned"
          /\ procs[k].body.ai_profile.has = {"profile_id"}
          /\ procs[k].body.ai_profile.profile_id = Shaped("A", "F", "-")

-----------------------------------------------------------------------------
(* The claims about regions (Spec) *)

\* the region selectors the credential offers (PrismaAirsApi.credentials.ts:28-45)
SupportedRegions == {"us", "eu", "in", "custom"}

\* the endpoints the credential's own test request resolves them to (line 87); the
\* custom one stands for the credential's customBaseUrl
InUrl == "https://service-in.api.aisecurity.paloaltonetworks.com"

CustomUrl == "https://service-custom.api.aisecurity.paloaltonetworks.com"

ExpectedUrl(region) ==
    CASE region = "us" -> UsUrl
      [] region = "eu" -> EuUrl
      [] region = "in" -> InUrl
      [] OTHER -> CustomUrl

UnknownRegion == ApplicationError(<<"Unknown region", host.region>>)

\* C18: a run configured with us, eu, in or custom is not stopped by base-URL
\* resolution, and every scan it starts goes to the endpoint of its region: the US,
\* the Germany and the India endpoint, and the custom base URL
C18_SupportedRegionsProceed ==
    host.region \in SupportedRegions =>
        /\ output.error # UnknownRegion
        /\ pc = "threw" => i < host.n
        /\ \A k \in DOMAIN procs : procs[k].baseUrl = ExpectedUrl(host.region)

\* C19: a run whose region is none of the supported selectors ends in the
\* configuration error before any item is read: no scan is started, so no network
\* call is made, and no record is produced, whatever the continue-on-fail setting
C19_UnknownRegionFailsFirst ==
    host.region \notin SupportedRegions =>
        /\ pc \in {"start", "threw"}
        /\ procs = <<>>
        /\ returnData = <<>> /\ itemLog = <<>> /\ i = 0
        /\ pc = "threw" => output = [kind |-> "threw", error |-> UnknownRegion, data |-> <<>>]

\* a run of two items with continue-on-fail set and an unknown region has thrown
C19_Witness ==
    /\ host.region = "moon" /\ host.n = NItems /\ host.continueOnFail
    /\ pc = "threw"
    /\ output.error = UnknownRegion

-----------------------------------------------------------------------------
(* The claims about masking (SpecMask) *)

\* the records of maskData items in the output
MaskRecords ==
    { returnData[k] : k \in { j \in 1..Len(returnData) : returnData[j].masking.applies } }

\* a masked-data field that is present and not null
PresentField(field) == field \notin {"none", "null"}

\* a masked-data field that is present, not null and not the empty string
UsableField(field) == PresentField(field) /\ field # ""

\* C20 as stated: maskApplied is true exactly when the verdict has a prompt-masked
\* or response-masked field that is present and not null, and then maskedContent is
\* such a field; otherwise maskedContent is the original input
C20_AsStated ==
    \A r \in MaskRecords :
        LET pm == r.result.prompt_masked_data
            rm == r.result.response_masked_data
        IN  /\ r.masking.maskApplied <=> (PresentField(pm) \/ PresentField(rm))
            /\ r.masking.maskApplied =>
                  r.masking.maskedContent \in
                      { MaskedField(f) : f \in { g \in {pm, rm} : PresentField(g) } }
            /\ ~r.masking.maskApplied => r.masking.maskedContent = InputText(Tiny)

\* C20: maskApplied is true exactly when the verdict has a prompt-masked or
\* response-masked field that is present, not null and not empty, and then
\* maskedContent is that field, the prompt-masked one first; otherwise maskApplied
\* is false and maskedContent is the original input, which originalContent shows
C20_MaskingOutcome ==
    \A r \in MaskRecords :
        LET pm == r.result.prompt_masked_data
            rm == r.result.response_masked_data
        IN  /\ r.masking.maskApplied <=> (UsableField(pm) \/ UsableField(rm))
            /\ r.masking.maskApplied =>
                  r.masking.maskedContent =
                      MaskedField(IF UsableField(pm) THEN pm ELSE rm)
            /\ ~r.masking.maskApplied => r.masking.maskedContent = InputText(Tiny)
            /\ r.masking.originalContent = Tiny

\* an async masking scan whose verdict had an empty prompt-masked field and a
\* response-masked text returned that text, and the run returned
C20_Witness ==
    /\ pc = "returned"
    /\ \E r \in MaskRecords :
          /\ r.scanMode = "async"
          /\ r.result.prompt_masked_data = "" /\ r.result.response_masked_data = "M1"
          /\ r.masking.maskApplied /\ r.masking.maskedContent = MaskedField("M1")
          /\ r.masking.dlpDetected

\* the verdict the scan of input item j returned
VerdictOf(j) == procs[<<j, 0>>].val

\* C21: a maskData item whose scan returned a verdict gets one success record that
\* carries the verdict unchanged; its dlpDetected is true exactly when the verdict's
\* prompt-side, response-side or top-level DLP flag is true; DLP without a usable
\* masked field is reported with maskApplied false and the note, never as an error
C21_DlpReported ==
    /\ pc # "threw"
    /\ \A k \in 1..Len(returnData) :
          LET r == returnData[k]
              v == r.result
          IN  /\ r.kind = "success" /\ r.masking.applies
              /\ v = VerdictOf(r.item)
              /\ r.masking.dlpDetected <=> (v.prompt_dlp \/ v.response_dlp \/ v.dlp)
              /\ (r.masking.dlpDetected /\ ~UsableField(v.prompt_masked_data)
                     /\ ~UsableField(v.response_masked_data)) =>
                    (~r.masking.maskApplied /\ r.masking.maskingNote)
    /\ pc = "returned" => Len(returnData) = host.n

\* a sync masking scan whose verdict had only the top-level DLP flag and no masked
\* field was reported with dlpDetected and without maskApplied, and the run returned
C21_Witness ==
    /\ pc = "returned"
    /\ \E r \in MaskRecords :
          /\ r.scanMode = "sync"
          /\ r.result.dlp /\ ~r.result.prompt_dlp /\ ~r.result.response_dlp
          /\ r.result.prompt_masked_data = "none" /\ r.result.response_masked_data = "none"
          /\ r.masking.dlpDetected /\ ~r.masking.maskApplied
          /\ r.kind = "success"

-----------------------------------------------------------------------------
(* More claims about a run of execute() (Spec) *)

\* the scans started for input item j
ItemScans(j) == { k \in DOMAIN procs : k[1] = j }

\* C22: a sync scan returns the verdict the sync endpoint answered, and a promptScan
\* item in sync mode whose scan returned verdict V has exactly one record: a success
\* record with operation promptScan, scan mode sync, the transaction id sent in the
\* item's request, and V unchanged
C22_SyncPromptRecord ==
    /\ \A k \in DOMAIN procs :
          (procs[k].mode = "sync" /\ procs[k].out = "returned" /\ procs[k].seen.ok
             /\ procs[k].seen.reply.present) => procs[k].val = procs[k].seen.reply.body
    /\ \A j \in 0..(Len(itemLog) - 1) :
          (/\ itemLog[j + 1].operation = "promptScan"
           /\ ItemScans(j) # {}
           /\ procs[<<j, 0>>].mode = "sync"
           /\ procs[<<j, 0>>].out = "returned") =>
              LET rs == RecordsOf(j)
              IN  /\ Len(rs) = 1
                  /\ rs[1].kind = "success"
                  /\ rs[1].operation = "promptScan"
                  /\ rs[1].scanMode = "sync"
                  /\ rs[1].transactionId = procs[<<j, 0>>].body.tr_id
                  /\ rs[1].result = procs[<<j, 0>>].val
                  /\ rs[1].batchIndex = -1 /\ ~rs[1].masking.applies

\* a run of one sync promptScan returned its record with the verdict allow
C22_Witness ==
    /\ pc = "returned"
    /\ host.n = 1
    /\ Len(output.data) = 1
    /\ output.data[1].operation = "promptScan"
    /\ output.data[1].scanMode = "sync"
    /\ output.data[1].kind = "success"
    /\ output.data[1].result.action = "allow"
    /\ output.data[1].transactionId = <<"n8n", 0>>

KnownOperations == {"promptScan", "responseScan", "dualScan", "batchScan", "maskData"}

\* the log entry of the item execute() is at says it failed with message m
CurrentFailedWith(m) ==
    /\ Len(itemLog) = cur.index + 1
    /\ itemLog[cur.index + 1].failed
    /\ Head(itemLog[cur.index + 1].error.msg) = m

\* C23: an item whose operation is none of the five, and a batchScan item whose list
\* of batch items is empty, fail with their validation error, and no scan is ever
\* started for such an item, so no outbound call is made for it
C23_LocalErrorsBeforeAnyCall ==
    cur.index >= 0 =>
        /\ cur.operation \notin KnownOperations =>
              ScansOfCurrent = {} /\ CurrentFailedWith("Unknown operation")
        /\ (cur.operation = "batchScan" /\ cur.nreq = 0) =>
              /\ ScansOfCurrent = {}
              /\ CurrentFailedWith("At least one item is required for batch scanning")

\* under continue-on-fail an item of an unknown operation and then an empty batch
\* failed, and the run returned their two error records without any scan started
C23_Witness ==
    /\ host.continueOnFail
    /\ pc = "returned"
    /\ Len(itemLog) = 2
    /\ itemLog[1].operation = "otherScan" /\ itemLog[1].failed
    /\ itemLog[2].operation = "batchScan" /\ itemLog[2].failed /\ itemLog[2].nreq = 0
    /\ procs = <<>>
    /\ Len(output.data) = 2

-----------------------------------------------------------------------------
(* The claims about the option limits (SpecCap, SpecPoll) *)

\* C24: whatever Max Retries is configured, the scan runs with at most 6 retries
\* (3 when the option is unset), and no request to the sync, the submission or the
\* results endpoint is attempted more than 7 times
C24_AtMostSevenAttempts ==
    /\ TheScan.maxRetries <= 6
    /\ TheScan.tries <= 7
    /\ ResolveMaxRetries(0) = 3

\* one poll of an async scan was attempted 7 times
C24_Witness ==
    /\ TheScan.mode = "async"
    /\ TheScan.url = "results"
    /\ TheScan.tries = 7
    /\ TheScan.fails = 6

\* C25: whatever Polling Interval is configured, every async scan of a prompt,
\* response, dual, batch or mask operation polls with an interval of at least
\* 1000 ms (2000 ms when the option is unset): each sleep between two of its polls
\* lasts at least 1000 ms
C25_PollingIntervalFloor ==
    /\ \A k \in DOMAIN procs :
          /\ procs[k].mode = "async"
          /\ procs[k].pollingInterval >= 1000
          /\ procs[k].pc = "pollsleep" => procs[k].timer >= 1000
          /\ procs[k].sleptMs >= 1000 * procs[k].pollSleeps
    /\ ResolvePollingInterval(0) = 2000

\* a scan of a batch configured with 1 ms has slept twice between polls, 1000 ms each
C25_Witness ==
    /\ cur.operation = "batchScan"
    /\ \E k \in DOMAIN procs :
          /\ procs[k].pollingInterval = 1000
          /\ procs[k].pollSleeps = 2
          /\ procs[k].sleptMs = 2000
          /\ procs[k].polls = 3

-----------------------------------------------------------------------------
(* The claims of the README about polling and failures (SpecAsync,          *)
(* SpecFailure)                                                             *)

\* C26: the waits between the polls of an async scan grow: a wait after earlier
\* waits is longer than those were on average (which it is when each wait is longer
\* than the one before)
C26_PollWaitsGrow ==
    (TheScan.pc = "pollsleep" /\ TheScan.pollSleeps >= 1) =>
        TheScan.timer * TheScan.pollSleeps > TheScan.sleptMs

\* every request of the run so far has failed
NothingSucceeded ==
    /\ \A j \in 1..Len(itemLog) : itemLog[j].failed
    /\ \A k \in DOMAIN procs : procs[k].out # "returned"

\* C27: after repeated failures the node stops calling the failing service: once
\* FailureFaults requests in a row have failed and none has succeeded, no further
\* request is in flight, neither a retry nor the request of a later item
C27_BreakerOpens ==
    (budget.faults = 0 /\ NothingSucceeded) =>
        \A k \in DOMAIN procs : procs[k].pc # "http"

-----------------------------------------------------------------------------
(* Claims about the endpoints and the validation of a run (Spec) *)

\* C28: a scan runs in the mode of its item; a sync scan calls the sync endpoint
\* only; an async scan never calls the sync endpoint, and calls the results endpoint
\* only after its submission was answered with the scan id it then polls; a scan
\* that failed in its submission has made no results call
C28_EndpointRouting ==
    \A k \in DOMAIN procs :
        LET p == procs[k]
        IN  /\ k[1] = cur.index => p.mode = cur.scanMode
            /\ p.mode = "sync" =>
                  /\ p.calls.submit = 0 /\ p.calls.results = 0
                  /\ p.pc = "http" => p.url = "sync"
            /\ p.mode = "async" =>
                  /\ p.calls.sync = 0
                  /\ p.pc = "http" => p.url \in {"submit", "results"}
                  /\ p.url = "submit" => p.calls.results = 0
                  /\ p.calls.results > 0 =>
                        (p.url = "results" /\ p.calls.submit >= 1 /\ p.scanId = IdOf(k))

\* after a sync scan that made its one call, an async scan failed in its submission
\* without a results call
C28_Witness ==
    /\ <<0, 0>> \in DOMAIN procs /\ procs[<<0, 0>>].mode = "sync"
    /\ <<1, 0>> \in DOMAIN procs
    /\ procs[<<1, 0>>].mode = "async"
    /\ procs[<<1, 0>>].out = "threw"
    /\ procs[<<1, 0>>].url = "submit"
    /\ procs[<<1, 0>>].calls.submit = 1
    /\ procs[<<1, 0>>].calls.results = 0

\* C29: a batchScan item one of whose batch items is over the limit of the mode
\* (2097152 bytes in sync mode, 5242880 in async mode) fails with the size error
\* and no scan is started for any of its batch items, the valid ones before the
\* oversized one included
C29_BatchValidatedBeforeSending ==
    (cur.operation = "batchScan" /\ cur.nreq >= 1
       /\ cur.bytes > (IF cur.scanMode = "sync" THEN 2097152 ELSE 5242880)) =>
        /\ \A k \in DOMAIN procs : k[1] # cur.index
        /\ batch = NoBatch
        /\ SizeErrorLogged
        /\ RecordsOf(cur.index) # <<>> => RecordsOf(cur.index)[1].kind = "error"

\* a batch of a tiny prompt and then an oversized response failed with no scan
\* started, and under continue-on-fail the run returned its error record
C29_Witness ==
    /\ cur.operation = "batchScan"
    /\ cur.nreq = 2
    /\ cur.bytes > 5242880
    /\ SizeErrorLogged
    /\ procs = <<>>
    /\ pc = "returned"
    /\ Len(output.data) = 1

\* C30: with continue-on-fail on and a region getBaseURL does not resolve, the run
\* throws the region error before any item is read: nothing is returned, and there
\* is no output record, not even an error record of an item
C30_RegionErrorIgnoresPolicy ==
    (host.continueOnFail /\ ~ValidRegion) =>
        /\ pc \in {"start", "threw"}
        /\ output.kind # "returned"
        /\ returnData = <<>> /\ output.data = <<>>
        /\ cur = NoCurrent /\ itemLog = <<>>
        /\ pc = "threw" => output.error = getBaseURL(host.region).error

\* a run of two items with continue-on-fail on and the region in has thrown
C30_Witness ==
    /\ host.continueOnFail
    /\ host.region = "in"
    /\ host.n = NItems
    /\ pc = "threw"
    /\ output.kind = "threw"
    /\ returnData = <<>>

-----------------------------------------------------------------------------
(* Claims about the scans of a batch group (SpecBatch, SpecPoll) *)

\* the step in which execute() handles the failure of an item
ItemFails == Len(itemLog') = Len(itemLog) + 1 /\ itemLog'[Len(itemLog')].failed

\* C31: when the failure of a batch item is handled, the scans that still run are
\* left as they are: each stays at its pending call or timer and goes on from there
\* (the witness shows one polling on after the run has returned)
C31_SiblingsKeepRunning ==
    [][ItemFails =>
          \A k \in DOMAIN procs :
              procs[k].pc # "done" => (k \in DOMAIN procs' /\ procs'[k] = procs[k])]_vars

\* under continue-on-fail the first item, an async batch, failed in one submission;
\* the next item was processed and the run has returned, and the other scan of the
\* failed group has polled and waits to poll again
C31_Witness ==
    /\ host.continueOnFail
    /\ pc = "returned"
    /\ Len(itemLog) = 2
    /\ itemLog[1].failed /\ itemLog[1].operation = "batchScan"
    /\ \E k \in DOMAIN procs :
          /\ k[1] = 0
          /\ procs[k].pc = "pollsleep"
          /\ procs[k].calls.results >= 1

\* C32: the service gives every submission its own scan id; an async scan polls
\* the id its own submission was answered with, whatever the other scans of its
\* group do, and the verdict it returns is the one of that id
C32_PollsOwnScanId ==
    \A k \in DOMAIN procs :
        /\ \A h \in DOMAIN procs : h # k => IdOf(h) # IdOf(k)
        /\ (procs[k].url = "results" /\ procs[k].pc # "done") => procs[k].scanId = IdOf(k)
        /\ (procs[k].mode = "async" /\ procs[k].out = "returned") =>
              procs[k].val.scan_id = IdOf(k)

\* the two scans of an async batch poll at the same time, each its own scan id
C32_Witness ==
    /\ cur.operation = "batchScan"
    /\ <<0, 0>> \in DOMAIN procs /\ <<0, 1>> \in DOMAIN procs
    /\ procs[<<0, 0>>].pc = "http" /\ procs[<<0, 0>>].url = "results"
    /\ procs[<<0, 1>>].pc = "http" /\ procs[<<0, 1>>].url = "results"
    /\ procs[<<0, 0>>].scanId = 1 /\ procs[<<0, 1>>].scanId = 2
    /\ procs[<<0, 0>>].polls = 2

-----------------------------------------------------------------------------
(* Claims about the numbers of polls and attempts (SpecAsync, SpecFailure,  *)
(* SpecRetry)                                                               *)

\* the quotient a / b rounded up, for b > 0
CeilDiv(a, b) == (a + b - 1) \div b

\* C33: an async scan that timed out after polls that all took no time and were
\* answered in progress or not found, so that only the sleeps between them took
\* time, has made at least 1 poll round when maxPollingDuration > 0 and at most
\* ceil(maxPollingDuration / pollingInterval) rounds
C33_PollRoundsBound ==
    (TheScan.out = "threw" /\ TheScan.err = Timeout
       /\ TheScan.elapsed = TheScan.sleptMs /\ TheScan.pending = TheScan.polls) =>
        /\ TheScan.maxPollingDuration > 0 => TheScan.polls >= 1
        /\ TheScan.polls <= CeilDiv(TheScan.maxPollingDuration, TheScan.pollingInterval)

\* a scan with maxPollingDuration 2500 and pollingInterval 1000 timed out after 3
\* rounds
C33_Witness ==
    /\ TheScan.out = "threw" /\ TheScan.err = Timeout
    /\ TheScan.maxPollingDuration = 2500 /\ TheScan.pollingInterval = 1000
    /\ TheScan.elapsed = TheScan.sleptMs /\ TheScan.pending = TheScan.polls
    /\ TheScan.polls = 3
    /\ TheScan.elapsed = 3000

\* C34: an item configured with Max Retries 0 runs with 3 retries, as an item with
\* the option unset does: its request, when every attempt fails with a network
\* error, is attempted 4 times, with 3 backoff sleeps, before the scan fails
C34_ZeroMeansThreeRetries ==
    \A k \in DOMAIN procs :
        (k[1] = cur.index /\ cur.rawMaxRetries = 0) =>
            /\ procs[k].maxRetries = 3
            /\ (procs[k].out = "threw" /\ ~procs[k].seen.ok
                   /\ procs[k].seen.fault = NetworkError) =>
                  /\ procs[k].tries = 4 /\ procs[k].fails = 4
                  /\ Len(procs[k].sleeps) = 3
                  /\ procs[k].err = NetworkError

\* the scan of an item with Max Retries 0 failed after its 4th attempt
C34_Witness ==
    /\ cur.rawMaxRetries = 0
    /\ \E k \in DOMAIN procs :
          /\ k[1] = cur.index
          /\ procs[k].out = "threw"
          /\ procs[k].tries = 4 /\ procs[k].fails = 4
          /\ procs[k].seen.fault = NetworkError

\* the outbound calls scan p has made
CallsOf(p) == p.calls.sync + p.calls.submit + p.calls.results

\* C35: the scan of an item with a negative Max Retries makes no outbound call and
\* fails at once with 'Request failed after retries', and so does the item, which
\* had passed validation; a scan of an item with any other Max Retries has made at
\* least one call from its start on
C35_NegativeRetriesMakeNoCall ==
    \A k \in DOMAIN procs :
        k[1] = cur.index =>
            /\ cur.rawMaxRetries < 0 =>
                  /\ procs[k].pc = "done" /\ procs[k].out = "threw"
                  /\ procs[k].err = RequestFailed
                  /\ CallsOf(procs[k]) = 0
                  /\ Len(itemLog) = cur.index + 1 =>
                        (itemLog[cur.index + 1].failed
                           /\ itemLog[cur.index + 1].error = RequestFailed)
            /\ (cur.rawMaxRetries >= 0 /\ procs[k].url # "none") =>
                  (procs[k].maxRetries >= 0 /\ CallsOf(procs[k]) >= 1)

\* the second item of a run, with Max Retries -1, failed with the generic error
\* without a call, after the first item's scan had been answered
C35_Witness ==
    /\ cur.index = 1
    /\ cur.rawMaxRetries = -1
    /\ Len(itemLog) = 2
    /\ ~itemLog[1].failed
    /\ itemLog[2].failed /\ itemLog[2].error = RequestFailed
    /\ procs[<<1, 0>>].err = RequestFailed

=============================================================================
